---- MODULE Spec2Model ----
(***************************************************************************)
(* Model of the Discover subsystem of daily-dally: the stop-insertion      *)
(* geometry (src/lib/discover.ts), the two-source aggregation pipeline,    *)
(* the ranking stage and the streaming adapter                             *)
(* (src/app/api/trips/[tripId]/discover/route.ts) and the enrichment       *)
(* search with its cache (lib/serpapi, lib/memory-cache).                  *)
(*                                                                         *)
(* Numbers.  Coordinates are points of the equator (lat = 0) with lng in   *)
(* hundredths of a degree.  For such points the haversine formula reduces  *)
(* to R * |dLng| (h = sin^2(dLng/2), c = |dLng|), so one hundredth of a    *)
(* degree is 6371000 * pi / 18000 = 1111.949 m.  Distances are integers in *)
(* metres (the code's kilometres times 1000), rounded down.                *)
(***************************************************************************)
EXTENDS Integers, Sequences, FiniteSets, TLC

\* An absent record or list (undefined / null).
Null == <<>>

\* The outcome of a call that throws Error(msg).
Thrown(msg) == [threw |-> msg]

IsThrown(r) == "threw" \in DOMAIN r

Abs(x) == IF x < 0 THEN -x ELSE x

Min(a, b) == IF a < b THEN a ELSE b

\* Number.POSITIVE_INFINITY: larger than every distance of the model.
Infinity == 1000000000

\* Metres of great-circle arc per 1/100 degree, times 1000 (R = 6371 km).
MilliMetresPerUnit == 1111949

Coord(x) == [lat |-> 0, lng |-> x]

\* src/lib/discover.ts haversineKm, in metres, for points of the equator.
haversineKm(a, b) == (Abs(b.lng - a.lng) * MilliMetresPerUnit) \div 1000

\* The detour of visiting cand between anchors[i] and anchors[i+1].
Delta(anchors, cand, i) ==
    haversineKm(anchors[i].location, cand)
    + haversineKm(cand, anchors[i + 1].location)
    - haversineKm(anchors[i].location, anchors[i + 1].location)

\* The loop of bestInsertAfterDestinationIdForCandidate: best after pairs 1..i.
RECURSIVE BestLoop(_, _, _)
BestLoop(anchors, cand, i) ==
    IF i = 0
    THEN [insertAfterDestinationId |-> anchors[1].destinationId,
          detourKm |-> Infinity]
    ELSE LET best == BestLoop(anchors, cand, i - 1)
             delta == Delta(anchors, cand, i)
         IN  IF delta < best.detourKm
             THEN [insertAfterDestinationId |-> anchors[i].destinationId,
                   detourKm |-> delta]
             ELSE best

\* A faulty variant of the loop: a non-strict improvement check (<=), so that the
\* last of several equal minima wins.
RECURSIVE BestLoopLastWins(_, _, _)
BestLoopLastWins(anchors, cand, i) ==
    IF i = 0
    THEN [insertAfterDestinationId |-> anchors[1].destinationId,
          detourKm |-> Infinity]
    ELSE LET best == BestLoopLastWins(anchors, cand, i - 1)
             delta == Delta(anchors, cand, i)
         IN  IF delta <= best.detourKm
             THEN [insertAfterDestinationId |-> anchors[i].destinationId,
                   detourKm |-> delta]
             ELSE best

\* A faulty variant: the single-anchor case reports no detour at all, and the
\* empty list is answered like a list of pairs.
bestInsertNoSingleCase(anchors, cand) ==
    IF Len(anchors) = 0 THEN [insertAfterDestinationId |-> 0, detourKm |-> 0]
    ELSE IF Len(anchors) = 1
    THEN [insertAfterDestinationId |-> anchors[1].destinationId, detourKm |-> 0]
    ELSE BestLoop(anchors, cand, Len(anchors) - 1)

bestInsertLastWins(anchors, cand) ==
    IF Len(anchors) = 0 THEN Thrown("No anchors available")
    ELSE IF Len(anchors) = 1
    THEN [insertAfterDestinationId |-> anchors[1].destinationId,
          detourKm |-> haversineKm(anchors[1].location, cand)]
    ELSE BestLoopLastWins(anchors, cand, Len(anchors) - 1)

\* A faulty variant: appending after the last anchor is a choice too, at the cost
\* of the distance from the last anchor.
bestInsertOrAppend(anchors, cand) ==
    IF Len(anchors) = 0 THEN Thrown("No anchors available")
    ELSE IF Len(anchors) = 1
    THEN [insertAfterDestinationId |-> anchors[1].destinationId,
          detourKm |-> haversineKm(anchors[1].location, cand)]
    ELSE LET best == BestLoop(anchors, cand, Len(anchors) - 1)
             last == anchors[Len(anchors)]
             atEnd == haversineKm(last.location, cand)
         IN  IF atEnd < best.detourKm
             THEN [insertAfterDestinationId |-> last.destinationId, detourKm |-> atEnd]
             ELSE best

\* src/lib/discover.ts bestInsertAfterDestinationIdForCandidate.
bestInsertAfterDestinationIdForCandidate(anchors, cand) ==
    IF Len(anchors) = 0 THEN Thrown("No anchors available")
    ELSE IF Len(anchors) = 1
    THEN [insertAfterDestinationId |-> anchors[1].destinationId,
          detourKm |-> haversineKm(anchors[1].location, cand)]
    ELSE BestLoop(anchors, cand, Len(anchors) - 1)


(***************************************************************************)
(* Data: trips' stops, the places of the provider, candidates.             *)
(***************************************************************************)

\* A non-finite number (NaN) in a coordinate.
NaN == 999999999

\* MAX_VALIDATE, the guardrail (km), the candidate cap, the summary cap, the
\* cap on merged source lists and the default result count.
MAX_VALIDATE == 12
GuardrailKm == 50
MaxCandidates == 80
MaxSummary == 60
MaxSources == 4
DefaultLimit == 6
MinLimit == 1
MaxLimitAllowed == 20

\* Bounds of the model.
MaxStops == 2
MaxHints == 2
MaxLimit == 2
MaxRankerElems == 3
MaxAnchors == 3
MaxSearches == 2
MaxTicks == 2

\* A faulty variant: only the longitude is looked at.
hasValidLocationLngOnly(d) ==
    /\ d.location # Null
    /\ d.location.lng # NaN

\* src/lib/discover.ts hasValidLocation.
hasValidLocation(d) ==
    /\ d.location # Null
    /\ d.location.lat # NaN
    /\ d.location.lng # NaN

\* The kinds of stops a day is built from; i is the stop's position, which
\* gives it its unique id; placeId 0 is an absent place id.  A: a mapped stop with place id 1; B: a mapped
\* stop without place id; N: a note; X: a stop that carries place id 2 but
\* a non-finite coordinate.
StopOfKind(k, i) ==
    CASE k = "A" -> [id |-> 100 + i, name |-> "Pier",
                     address |-> <<"1 Main St", "Springfield", "IL">>,
                     placeId |-> 1, location |-> Coord(0)]
      [] k = "B" -> [id |-> 100 + i, name |-> "Lookout", address |-> <<>>,
                     placeId |-> 0, location |-> Coord(20)]
      [] k = "N" -> [id |-> 100 + i, name |-> "Lunch", address |-> <<"Downtown">>,
                     placeId |-> 0, location |-> Null]
      [] k = "X" -> [id |-> 100 + i, name |-> "Cafe", address |-> <<>>,
                     placeId |-> 2, location |-> [lat |-> NaN, lng |-> 0]]

StopKinds == {"A", "B", "N", "X"}

DaysOver(kinds, n) ==
    UNION {{[i \in 1..m |-> StopOfKind(ks[i], i)] : ks \in [1..m -> kinds]} : m \in 0..n}

\* The provider's canonical places: place ids 1..4 lie at 0 km, 5.6 km,
\* 50.04 km and 200 km from lng 0 (stop A), place 5 lies where stop B lies
\* (27.8 km from place 3); the others lie 1 to 8 km from lng 0.
PlaceLng(p) ==
    CASE p = 1 -> 0
      [] p = 2 -> 5
      [] p = 3 -> 45
      [] p = 4 -> 180
      [] p = 5 -> 20
      [] OTHER -> (p % 7) + 1

NumPlaces == 5 + MaxCandidates + 1

Places == 1..NumPlaces

\* GooglePlacesCanonicalPlace of place id p (parseCanonicalPlace).
CanonicalPlace(p) == [placeId |-> p, location |-> Coord(PlaceLng(p))]


(***************************************************************************)
(* Helpers of the Discover route.                                          *)
(***************************************************************************)

\* Array.prototype.slice(0, n).
Take(seq, n) == SubSeq(seq, 1, Min(n, Len(seq)))

\* Array.prototype.slice(-n).
TakeLast(seq, n) == SubSeq(seq, Len(seq) - Min(n, Len(seq)) + 1, Len(seq))

Ids(cands) == {cands[i].candidateId : i \in DOMAIN cands}

\* route.ts 246-248: the anchors of a day, in the order of its stops.
anchorsOf(dests) ==
    LET mapped == SelectSeq(dests, hasValidLocation)
    IN  [i \in DOMAIN mapped |->
            [destinationId |-> mapped[i].id, location |-> mapped[i].location]]

\* route.ts 265-267.
existingPlaceIdsOf(dests) ==
    {dests[i].placeId : i \in {j \in DOMAIN dests : dests[j].placeId # 0}}

\* route.ts 111-121 minDistanceKmToAnchors (metres).
RECURSIVE MinDistLoop(_, _, _)
MinDistLoop(anchors, location, i) ==
    IF i = 0 THEN Infinity
    ELSE LET best == MinDistLoop(anchors, location, i - 1)
             d == haversineKm(anchors[i].location, location)
         IN  IF d < best THEN d ELSE best

minDistanceKmToAnchors(anchors, location) ==
    MinDistLoop(anchors, location, Len(anchors))

\* route.ts 123-134 deriveSearchAreaText; an address is the list of its
\* trimmed, non-empty comma-separated parts, the text the list of parts
\* joined; "" when the day is empty.
deriveSearchAreaText(dests) ==
    IF Len(dests) = 0 THEN <<>>
    ELSE LET last == dests[Len(dests)]
         IN  IF Len(last.address) = 0 THEN <<last.name>>
             ELSE IF Len(last.address) >= 2 THEN TakeLast(last.address, 2)
             ELSE <<last.address[1]>>

\* route.ts 145: the query of the enrichment search.
hiddenGemsQuery(dests) ==
    LET area == deriveSearchAreaText(dests)
    IN  IF Len(area) > 0 THEN <<"hidden gems near">> \o area
        ELSE <<"hidden gems near me">>

RefererMessage == "API keys with referer restrictions cannot be used with this API."

\* route.ts 55-57.
isRefererRestrictedKeyError(message) == message = RefererMessage

\* A raw result of the nearby search: place id p (0: missing), with or
\* without a name and a geometry.
RawResult(p) == [place_id |-> p, name |-> "n", geometry |-> Coord(PlaceLng(p))]

RawNoGeometry(p) == [place_id |-> p, name |-> "n", geometry |-> Null]

\* route.ts 92-105: the candidate of a raw result.
PlacesCandidate(r) ==
    [candidateId |-> r.place_id, placeId |-> r.place_id, location |-> r.geometry,
     detourKm |-> 0, insertAfterDestinationId |-> 0, sources |-> <<>>,
     sourceKind |-> "places", description |-> ""]

\* route.ts 59-109 fetchNearbyPlaces, on the upstream response res.
fetchNearbyPlaces(res) ==
    IF ~res.ok THEN Thrown("Places nearbysearch failed")
    ELSE IF res.status # "OK" /\ res.status # "ZERO_RESULTS"
    THEN Thrown(IF res.error_message # "" THEN res.error_message
                ELSE "Places nearbysearch status")
    ELSE LET usable(r) == r.place_id # 0 /\ r.name # "" /\ r.geometry # Null
             kept == SelectSeq(res.results, usable)
         IN  [candidates |-> [i \in DOMAIN kept |-> PlacesCandidate(kept[i])]]

\* Position of candidate id in the ordered map m; 0 when absent.
IndexOf(m, id) ==
    IF \E i \in DOMAIN m : m[i].candidateId = id
    THEN CHOOSE i \in DOMAIN m : m[i].candidateId = id
    ELSE 0

\* route.ts 295-303: the structured results, concatenated in category
\* order, into the map byId (insertion-ordered, first occurrence kept).
\* What the loop leaves in the map: the candidates that are not stops of
\* the day, each id at its first occurrence.
MergePlaces(list, existing) ==
    LET tagged == [i \in DOMAIN list |-> [at |-> i, c |-> list[i]]]
        first(e) == /\ e.c.placeId \notin existing
                    /\ \A j \in 1..(e.at - 1) : list[j].candidateId # e.c.candidateId
        kept == SelectSeq(tagged, first)
    IN  [i \in DOMAIN kept |-> kept[i].c]

\* A faulty variant: every id found again is marked 'both'.
MergedCandidateAlwaysBoth(prev, c) ==
    [prev EXCEPT !.sources = Take(prev.sources \o c.sources, MaxSources),
                 !.sourceKind = "both"]

\* route.ts 323-327: the record stored for an id found again by enrichment.
MergedCandidate(prev, c) ==
    [prev EXCEPT !.sources = Take(prev.sources \o c.sources, MaxSources),
                 !.sourceKind = IF prev.sourceKind = "places" THEN "both"
                                ELSE prev.sourceKind]

\* route.ts 317-329: the enrichment candidates merged into byId.
RECURSIVE MergeWeb(_, _)
MergeWeb(m, web) ==
    IF Len(web) = 0 THEN m
    ELSE LET c == Head(web)
             i == IndexOf(m, c.candidateId)
         IN  IF i = 0
             THEN MergeWeb(Append(m, c), Tail(web))
             ELSE MergeWeb([m EXCEPT ![i] = MergedCandidate(m[i], c)], Tail(web))

\* route.ts 340-355: insertion point and detour of each of the first 80.
computeCandidates(m, anchors) ==
    LET kept == Take(m, MaxCandidates)
    IN  [i \in DOMAIN kept |->
            LET ins == bestInsertAfterDestinationIdForCandidate(anchors, kept[i].location)
            IN  [kept[i] EXCEPT !.insertAfterDestinationId = ins.insertAfterDestinationId,
                                !.detourKm = ins.detourKm]]

\* A faulty variant: the candidates are cut without being sorted.
TakeUnsorted(cands, n) == Take(cands, n)

\* [...cands].sort((a, b) => a.detourKm - b.detourKm).slice(0, n): the sort
\* is stable, so the candidate at position i of cands comes after those
\* with a smaller detour and those before it with the same detour.
SortedByDetourTake(cands, n) ==
    LET before(i) == {j \in DOMAIN cands :
                        \/ cands[j].detourKm < cands[i].detourKm
                        \/ cands[j].detourKm = cands[i].detourKm /\ j < i}
    IN  [k \in 1..Min(n, Len(cands)) |->
            cands[CHOOSE i \in DOMAIN cands : Cardinality(before(i)) = k - 1]]

\* A faulty variant: the insertion point and the detour are not those computed.
SuggestionUnannotated(c, why) ==
    [candidateId |-> c.candidateId, placeId |-> c.placeId, location |-> c.location,
     detourKm |-> 0, insertAfterDestinationId |-> 0,
     whyItFits |-> why, sources |-> c.sources, sourceKind |-> c.sourceKind]

\* The suggestion sent for candidate c with rationale why.
Suggestion(c, why) ==
    [candidateId |-> c.candidateId, placeId |-> c.placeId, location |-> c.location,
     detourKm |-> c.detourKm, insertAfterDestinationId |-> c.insertAfterDestinationId,
     whyItFits |-> why, sources |-> c.sources, sourceKind |-> c.sourceKind]

\* route.ts 364-382, 540-560: the deterministic selection.
deterministicSuggestions(cands, limit) ==
    LET top == SortedByDetourTake(cands, limit)
    IN  [i \in DOMAIN top |->
            Suggestion(top[i], IF top[i].description # "" THEN top[i].description
                               ELSE "Low detour and a great fit for your day.")]

\* route.ts 397-415: the ids of the candidate summary given to the ranker.
candidateSummaryIds(cands) == Ids(Take(cands, MaxSummary))

\* route.ts 443: candidateById.get(id); Null when absent.
candidateByIdGet(cands, id) ==
    IF IndexOf(cands, id) = 0 THEN Null ELSE cands[IndexOf(cands, id)]

\* route.ts 512-537: the selections of the ranker's output that name a
\* candidate, first occurrence of each id, cut to limit.
RECURSIVE SelectLoop(_, _, _)
SelectLoop(cands, output, seenIds) ==
    IF Len(output) = 0 THEN <<>>
    ELSE LET sel == Head(output)
             c == candidateByIdGet(cands, sel.candidateId)
         IN  IF c = Null \/ sel.candidateId \in seenIds
             THEN SelectLoop(cands, Tail(output), seenIds)
             ELSE <<Suggestion(c, sel.whyItFits)>>
                  \o SelectLoop(cands, Tail(output), seenIds \cup {sel.candidateId})

\* A faulty variant: the selections are not cut to the limit.
assistedSuggestionsUncut(cands, output, limit) ==
    SelectLoop(cands, output, {})

assistedSuggestions(cands, output, limit) ==
    Take(SelectLoop(cands, output, {}), limit)


(***************************************************************************)
(* The upstream services and the inputs drawn from them.                   *)
(***************************************************************************)

\* A placeIdHint that is no place id of the provider.
BogusId == 999

\* Names above AliasBase are second names of the places 1, 2, ...
AliasBase == 500

\* An enrichment hint (SerpApiPlaceHint): name 0 resolves to no place.
Hint(name, idHint, sources, description) ==
    [name |-> name, placeIdHint |-> idHint, sources |-> sources,
     details |-> [description |-> description]]

\* googlePlacesDetails: the canonical place of a place id, or null.
googlePlacesDetails(placeId) ==
    IF placeId \in Places THEN CanonicalPlace(placeId) ELSE Null

\* googlePlacesFindPlaceFromText: the first candidate for the text, or null.
googlePlacesFindPlaceFromText(input) ==
    IF input \in Places THEN CanonicalPlace(input)
    ELSE IF input > AliasBase /\ input - AliasBase \in Places
    THEN CanonicalPlace(input - AliasBase)
    ELSE Null

\* Hints: of place 2 by id; of place 3 by name with a bogus id; of place 4
\* by id; of place 5 by name.
HintChoices ==
    { Hint(2, 2, <<"s2", "s3", "s4">>, "d2"),
      Hint(3, BogusId, <<"s5">>, ""),
      Hint(4, 4, <<>>, "d4"),
      Hint(5, 0, <<"s9">>, "d5") }

\* serpapiGoogleMapsSearch dedupes its hints by name.
DistinctNames(hs) == \A i, j \in DOMAIN hs : hs[i].name = hs[j].name => i = j

HintListsUpTo(choices, n) ==
    UNION {{hs \in [1..m -> choices] : DistinctNames(hs)} : m \in 0..n}

\* More hints than MAX_VALIDATE: the first resolves to no place, the second
\* and the third to place 2 (by a second name and by id), the others have a
\* bogus id and a resolvable name.
LongHintList ==
    [i \in 1..(MAX_VALIDATE + 1) |->
        CASE i = 1 -> Hint(0, BogusId, <<"s6">>, "")
          [] i = 2 -> Hint(AliasBase + 2, 0, <<"s7", "s8">>, "")
          [] i = 3 -> Hint(2, 2, <<"s2", "s3", "s4">>, "d2")
          [] OTHER -> Hint(5 + i, BogusId, <<>>, "")]

OkResponse(results) ==
    [ok |-> TRUE, status |-> IF Len(results) = 0 THEN "ZERO_RESULTS" ELSE "OK",
     error_message |-> "", results |-> results]

HttpFailure == [ok |-> FALSE, status |-> "", error_message |-> "", results |-> <<>>]

DeniedReferer ==
    [ok |-> TRUE, status |-> "REQUEST_DENIED", error_message |-> RefererMessage,
     results |-> <<>>]

\* More places than the candidate cap.
BulkResults == [i \in 1..(MaxCandidates + 1) |-> RawResult(5 + i)]

\* The input sets of the aggregation-centred specification: the days, the
\* responses of the three category searches, the hint lists, the cache
\* states, the limits requested, and what a ranker may return.
WideInputs ==
    [days |-> DaysOver({"A", "B", "X"}, MaxStops),
     nearby |-> << {OkResponse(<<>>), OkResponse(<<RawResult(1), RawResult(6)>>),
                    HttpFailure},
                   {OkResponse(<<>>),
                    OkResponse(<<RawResult(2), RawNoGeometry(7), RawResult(2)>>)},
                   {OkResponse(<<>>), OkResponse(<<RawResult(3), RawResult(2)>>),
                    HttpFailure, DeniedReferer} >>,
     hintLists |-> HintListsUpTo(HintChoices, MaxHints) \cup {LongHintList},
     caches |-> {"empty", "fresh", "expired"},
     limits |-> {<<>>, <<1>>, <<MaxLimitAllowed + 1>>},
     positions |-> {1},
     otherIds |-> {1},
     maxElems |-> 1]

\* The input sets of the ranking-centred specification.
RankInputs ==
    [days |-> {<<StopOfKind("A", 1)>>, <<StopOfKind("B", 1), StopOfKind("A", 2)>>},
     nearby |-> << {OkResponse(<<>>), OkResponse(<<RawResult(2), RawResult(1)>>)},
                   {OkResponse(<<>>), OkResponse(BulkResults)},
                   {OkResponse(<<>>), HttpFailure, DeniedReferer} >>,
     hintLists |-> {<<>>, <<Hint(2, 2, <<"s2">>, "d2"), Hint(3, 0, <<"s5">>, "")>>},
     caches |-> {"empty", "fresh"},
     limits |-> {<<>>, <<MaxLimitAllowed + 1>>} \cup {<<n>> : n \in 0..MaxLimit},
     positions |-> {1, MaxSummary + 1},
     otherIds |-> {BogusId},
     maxElems |-> MaxRankerElems]

\* The input sets of the eligibility-centred specification: days of every
\* kind of stop, notes included.
NoteInputs ==
    [days |-> DaysOver(StopKinds, MaxStops),
     nearby |-> << {OkResponse(<<RawResult(2)>>)},
                   {OkResponse(<<>>)},
                   {OkResponse(<<RawResult(6)>>), HttpFailure} >>,
     hintLists |-> {<<Hint(5, 0, <<"s9">>, "d5")>>},
     caches |-> {"empty"},
     limits |-> {<<>>, <<MinLimit - 1>>},
     positions |-> {1},
     otherIds |-> {BogusId},
     maxElems |-> 1]

\* What the provider answers in the specification of the cache.
CacheInputs == [hintLists |-> {<<>>, <<Hint(5, 0, <<"s9">>, "d5")>>}]

(***************************************************************************)
(* State.                                                                  *)
(***************************************************************************)
VARIABLES
    day,          \* the stops of the requested day of the stored trip
    cache,        \* the memory cache: key -> [value, expiresAt]
    now,          \* Date.now()
    pc,           \* position of the POST handler
    input,        \* the request as received: the caller's role and the body
    req,          \* the parsed request: [limit, stream]
    env,          \* the keys read from process.env so far
    nearbyErrors, \* per category search: the message it threw ("": none)
    fetched,      \* the candidate lists of the three category searches
    byId,         \* the insertion-ordered map of candidates
    hints,        \* the hints of the enrichment search
    hintIdx,      \* the next hint of the validation loop
    validated,    \* the candidates validated so far
    resolved,     \* per hint handled: the place id it resolved to (0: none)
    enrichExit,   \* how the enrichment search ended: hints, quota, error
    calls,        \* upstream requests made by this invocation, per service
    candidates,   \* the annotated candidates
    offered,      \* the elements received from the ranker
    seen,         \* the candidate ids emitted on the stream
    emitted,      \* the records enqueued on the stream
    closed,       \* the stream is closed: by controller.close() or by a cancel
    cancelled,    \* the caller cancelled the stream (disconnected)
    streamExit,   \* how the stream loop ended
    response,     \* the response returned to the caller
    insAnchors,   \* solver check: the anchors given
    insCand,      \* solver check: the candidate location given
    insResult,    \* solver check: the result
    searchLog,    \* the calls of serpapiGoogleMapsSearch made on this server
    ticks,        \* the number of times the clock was advanced
    kv,           \* the key-value store: trips and capability records
    srv,          \* the requests received by the trip API, with their position
    cl,           \* per browser client: the state of its useTrip hook
    upd           \* the updateTrip calls made by the clients

insVars == <<insAnchors, insCand, insResult>>
cacheVars == <<searchLog, ticks>>
tripVars == <<kv, srv, cl, upd>>
appVars == <<cacheVars, tripVars>>
storeVars == <<day, now>>
enrichVars == <<hints, hintIdx, validated, resolved, enrichExit>>
streamVars == <<offered, seen, emitted, closed, cancelled, streamExit>>
vars == <<day, cache, now, pc, input, req, env, nearbyErrors, fetched, byId, hints,
          hintIdx, validated, resolved, enrichExit, calls, candidates, offered, seen,
          emitted, closed, cancelled, streamExit, response, insAnchors, insCand,
          insResult, searchLog, ticks, kv, srv, cl, upd>>

NoResponse == [status |-> 0, error |-> "", mode |-> "", suggestions |-> <<>>]

ErrorResponse(status, msg) ==
    [status |-> status, error |-> msg, mode |-> "error", suggestions |-> <<>>]

JsonResponse(mode, suggestions) ==
    [status |-> 200, error |-> "", mode |-> mode, suggestions |-> suggestions]

\* The streaming response: its records are in emitted.
StreamResponse == [status |-> 200, error |-> "", mode |-> "stream", suggestions |-> <<>>]

NoCalls == [nearby |-> 0, serp |-> 0, details |-> 0, findPlace |-> 0, ranker |-> 0]

\* 12 * 60 * 60 * 1000
TtlMs == 43200000

\* Number.prototype.toFixed(4) of a coordinate in 1/100 degree: the number
\* of 1/10000 degrees.
ToFixed4(x) == x * 100

\* serpapi 160-162: the cache key of a search.
cacheKey(query, center, zoom) ==
    <<query, <<ToFixed4(center.lat), ToFixed4(center.lng)>>, zoom>>

\* A faulty variant: an entry is served whatever its age.
memoryCacheGetIgnoringExpiry(store, key, time) ==
    IF key \notin DOMAIN store THEN [hit |-> FALSE, store |-> store]
    ELSE [hit |-> TRUE, value |-> store[key].value, store |-> store]

\* memory-cache memoryCacheGet: the value read and the store afterwards (an
\* expired entry is deleted).
memoryCacheGet(store, key, time) ==
    IF key \notin DOMAIN store THEN [hit |-> FALSE, store |-> store]
    ELSE IF time > store[key].expiresAt
    THEN [hit |-> FALSE, store |-> [k \in DOMAIN store \ {key} |-> store[k]]]
    ELSE [hit |-> TRUE, value |-> store[key].value, store |-> store]

\* memory-cache memoryCacheSet.
memoryCacheSet(store, key, value, ttlMs, time) ==
    [k \in DOMAIN store \cup {key} |->
        IF k = key THEN [value |-> value, expiresAt |-> time + ttlMs] ELSE store[k]]

EmptyCache == [k \in {} |-> 0]

Zoom == 12

\* The key the enrichment search of a day uses.
dayKey(dests) ==
    LET anchors == anchorsOf(dests)
    IN  cacheKey(hiddenGemsQuery(dests), anchors[Len(anchors)].location, Zoom)

\* The states of the cache a warm server can be in for a day: empty, or an
\* entry of an earlier search, expired or not.
CacheOfKind(kind, dests, time) ==
    IF kind = "empty" \/ Len(anchorsOf(dests)) = 0 THEN EmptyCache
    ELSE IF kind = "fresh"
    THEN memoryCacheSet(EmptyCache, dayKey(dests), <<Hint(6, 0, <<"s9">>, "d6")>>,
                        TtlMs, time)
    ELSE memoryCacheSet(EmptyCache, dayKey(dests), <<>>, TtlMs, time - TtlMs - 1)

StartTime == 100000000

\* No request received yet.
NoInput == [role |-> "", body |-> [dayId |-> "", limit |-> <<>>, stream |-> FALSE]]

\* No search made, the clock not advanced.
CacheIdle ==
    /\ searchLog = <<>>
    /\ ticks = 0

\* No trip: null.
NoTrip == [id |-> 0, days |-> <<>>]

\* The store without a key.
EmptyKv == [trip |-> EmptyCache, capEdit |-> EmptyCache, capView |-> EmptyCache,
            tripCaps |-> EmptyCache]

\* Nothing stored, no request received, no page open.
TripIdle ==
    /\ kv = EmptyKv
    /\ srv = <<>>
    /\ cl = <<>>
    /\ upd = <<>>

AppIdle ==
    /\ CacheIdle
    /\ TripIdle

\* The Discover handler has received no request.
PipelineIdle ==
    /\ pc = "idle"
    /\ input = NoInput
    /\ nearbyErrors = <<>>
    /\ enrichExit = ""
    /\ req = [limit |-> 0, stream |-> FALSE]
    /\ env = [maps |-> "unread", serp |-> "unread", genAi |-> "unread"]
    /\ fetched = <<>>
    /\ byId = <<>>
    /\ hints = <<>>
    /\ hintIdx = 0
    /\ validated = <<>>
    /\ resolved = <<>>
    /\ calls = NoCalls
    /\ candidates = <<>>
    /\ offered = <<>>
    /\ seen = {}
    /\ emitted = <<>>
    /\ closed = FALSE
    /\ cancelled = FALSE
    /\ streamExit = ""
    /\ response = NoResponse

Idle ==
    /\ AppIdle
    /\ PipelineIdle

InsIdle ==
    /\ insAnchors = <<>>
    /\ insCand = Coord(0)
    /\ insResult = Null

Init(P) ==
    /\ day \in P.days
    /\ now = StartTime
    /\ cache \in {CacheOfKind(k, day, now) : k \in P.caches}
    /\ Idle
    /\ InsIdle


(***************************************************************************)
(* POST /api/trips/[tripId]/discover.                                      *)
(***************************************************************************)

\* The request bodies: limit omitted (<<>>) or given.
Bodies(P) == [dayId : {"day", "other"}, limit : P.limits, stream : BOOLEAN]

\* route.ts 11-15 RequestSchema.
RequestValid(body) ==
    \/ Len(body.limit) = 0
    \/ body.limit[1] >= MinLimit /\ body.limit[1] <= MaxLimitAllowed

Finish(r) ==
    /\ pc' = "done"
    /\ response' = r

\* A faulty variant: the mapped-destination check comes first.
eligibilityMappedFirst(dests) ==
    IF Len(anchorsOf(dests)) = 0
    THEN "Discover requires at least one mapped destination"
    ELSE IF Len(dests) = 0 THEN "Add at least one destination first"
    ELSE ""

\* route.ts 238-255: the eligibility of a day; the error message, "" when
\* the day is eligible.
eligibility(dests) ==
    IF Len(dests) = 0 THEN "Add at least one destination first"
    ELSE IF Len(anchorsOf(dests)) = 0
    THEN "Discover requires at least one mapped destination"
    ELSE ""

\* route.ts 213-269: access check, parsing, eligibility, the maps key.
PostStart(P) ==
    /\ pc = "idle"
    /\ \E role \in {"none", "view", "edit"}, body \in Bodies(P), key \in {"set", "unset"} :
        (input' = [role |-> role, body |-> body]) /\
        IF role = "none" THEN
            Finish(ErrorResponse(404, "Trip not found")) /\ UNCHANGED <<req, env>>
        ELSE IF role # "edit" THEN
            Finish(ErrorResponse(403, "Read-only link")) /\ UNCHANGED <<req, env>>
        ELSE IF ~RequestValid(body) THEN
            Finish(ErrorResponse(400, "Invalid request")) /\ UNCHANGED <<req, env>>
        ELSE IF body.dayId # "day" THEN
            Finish(ErrorResponse(404, "Day not found")) /\ UNCHANGED <<req, env>>
        ELSE IF eligibility(day) # "" THEN
            Finish(ErrorResponse(400, eligibility(day))) /\ UNCHANGED <<req, env>>
        ELSE
            /\ req' = [limit |-> IF Len(body.limit) = 0 THEN DefaultLimit
                                 ELSE body.limit[1],
                       stream |-> body.stream]
            /\ env' = [env EXCEPT !.maps = key]
            /\ IF key = "unset"
               THEN Finish(ErrorResponse(500, "Server Google Maps API key not configured"))
               ELSE pc' = "nearby" /\ UNCHANGED response
    /\ UNCHANGED <<storeVars, cache, fetched, byId, enrichVars, calls, candidates,
                   streamVars, insVars, appVars,
                   nearbyErrors>>

\* route.ts 271-306: the three category searches joined, the map byId
\* built, the enrichment key read.  Promise.all rejects with the error of a
\* search that failed.
PostNearby(P) ==
    /\ pc = "nearby"
    /\ \E r1 \in P.nearby[1], r2 \in P.nearby[2], r3 \in P.nearby[3],
          key \in {"set", "unset"} :
        LET out == <<fetchNearbyPlaces(r1), fetchNearbyPlaces(r2), fetchNearbyPlaces(r3)>>
            failed == {i \in 1..3 : IsThrown(out[i])}
        IN  /\ calls' = [calls EXCEPT !.nearby = 3]
            /\ nearbyErrors' = [i \in 1..3 |-> IF IsThrown(out[i]) THEN out[i].threw
                                               ELSE ""]
            /\ IF failed # {}
               THEN /\ \E i \in failed :
                        IF isRefererRestrictedKeyError(out[i].threw)
                        THEN Finish(ErrorResponse(500, "Misconfigured Google Maps key"))
                        ELSE Finish(ErrorResponse(500, "Internal server error"))
                    /\ UNCHANGED <<fetched, byId, env>>
               ELSE /\ fetched' = [i \in 1..3 |-> out[i].candidates]
                    /\ byId' = MergePlaces(out[1].candidates \o out[2].candidates
                                           \o out[3].candidates,
                                           existingPlaceIdsOf(day))
                    /\ env' = [env EXCEPT !.serp = key]
                    /\ pc' = IF key = "set" THEN "enrich" ELSE "rank"
                    /\ UNCHANGED response
    /\ UNCHANGED <<storeVars, cache, req, enrichVars, candidates, streamVars, insVars, appVars,
                   input>>

\* A faulty variant: a failed upstream request is made a second time.
serpapiGoogleMapsSearchRetrying(store, key, time, upstream) ==
    LET got == memoryCacheGet(store, key, time)
    IN  IF got.hit
        THEN [hints |-> got.value, store |-> got.store, requests |-> 0]
        ELSE IF IsThrown(upstream)
        THEN [threw |-> upstream.threw, store |-> got.store, requests |-> 2]
        ELSE [hints |-> upstream.hints,
              store |-> memoryCacheSet(got.store, key, upstream.hints, TtlMs, time),
              requests |-> 1]

\* serpapi 154-286 serpapiGoogleMapsSearch: the cached hints, or one
\* upstream request, whose hints are cached and whose failure is thrown;
\* with the store afterwards and the number of upstream requests made.
serpapiGoogleMapsSearch(store, key, time, upstream) ==
    LET got == memoryCacheGet(store, key, time)
    IN  IF got.hit
        THEN [hints |-> got.value, store |-> got.store, requests |-> 0]
        ELSE IF IsThrown(upstream)
        THEN [threw |-> upstream.threw, store |-> got.store, requests |-> 1]
        ELSE [hints |-> upstream.hints,
              store |-> memoryCacheSet(got.store, key, upstream.hints, TtlMs, time),
              requests |-> 1]

\* What the provider answers to a request: hints, a quota error (402, 429
\* or a quota message), or another error.
SerpAnswers(P) ==
    {[hints |-> hs] : hs \in P.hintLists}
    \cup {Thrown("SerpApiQuotaError"), Thrown("Error")}

\* A faulty variant: the quota error escapes the catch block.
enrichmentErrorRethrownOnQuota(e) == e # "SerpApiQuotaError"

\* route.ts 330-337: the catch block of the enrichment pass catches every
\* error, the quota error and any other, and only logs it.
enrichmentErrorCaught(e) == e \in {"SerpApiQuotaError", "Error"}

\* route.ts 144-152, 307-316, 330-337: the one enrichment search of an
\* invocation; both kinds of failure are caught and only logged.
PostEnrichSearch(P) ==
    /\ pc = "enrich"
    /\ \E upstream \in SerpAnswers(P) :
        LET anchors == anchorsOf(day)
            key == cacheKey(hiddenGemsQuery(day), anchors[Len(anchors)].location, Zoom)
            out == serpapiGoogleMapsSearch(cache, key, now, upstream)
        IN  /\ cache' = out.store
            /\ calls' = [calls EXCEPT !.serp = @ + out.requests]
            /\ enrichExit' = IF ~IsThrown(out) THEN "hints"
                             ELSE IF out.threw = "SerpApiQuotaError" THEN "quota"
                             ELSE "error"
            /\ IF IsThrown(out)
               THEN /\ UNCHANGED <<hints, hintIdx>>
                    /\ IF enrichmentErrorCaught(out.threw)
                       THEN pc' = "rank" /\ UNCHANGED response
                       ELSE Finish(ErrorResponse(500, "Internal server error"))
               ELSE /\ hints' = out.hints /\ hintIdx' = 1 /\ pc' = "resolve"
                    /\ UNCHANGED response
    /\ UNCHANGED <<storeVars, req, env, fetched, byId, validated, resolved, candidates,
                   streamVars, insVars, appVars,
                   input, nearbyErrors>>

\* route.ts 182-203: the candidate of a validated hint.
WebCandidate(place, h) ==
    [candidateId |-> place.placeId, placeId |-> place.placeId,
     location |-> place.location, detourKm |-> 0, insertAfterDestinationId |-> 0,
     sources |-> h.sources, sourceKind |-> "web",
     description |-> h.details.description]

\* route.ts 160-172: the place a hint resolves to and the lookups made.
resolveHint(h) ==
    LET viaId == IF h.placeIdHint # 0 THEN googlePlacesDetails(h.placeIdHint) ELSE Null
        place == IF viaId # Null THEN viaId ELSE googlePlacesFindPlaceFromText(h.name)
    IN  [place |-> place,
         details |-> IF h.placeIdHint # 0 THEN 1 ELSE 0,
         findPlace |-> IF viaId # Null THEN 0 ELSE 1]

\* A faulty variant: a resolved place that is already a stop of the day is kept.
rejectedIgnoringExisting(place, anchors, existing) ==
    \/ place = Null
    \/ LET farKm == minDistanceKmToAnchors(anchors, place.location)
       IN  farKm >= Infinity \/ farKm > GuardrailKm * 1000

\* A faulty variant: the guardrail compares with 500 km instead of 50 km.
rejectedGuardrailTooWide(place, anchors, existing) ==
    \/ place = Null
    \/ place.placeId \in existing
    \/ LET farKm == minDistanceKmToAnchors(anchors, place.location)
       IN  farKm >= Infinity \/ farKm > 10 * GuardrailKm * 1000

\* route.ts 174-180: whether a resolved place is dropped.
rejected(place, anchors, existing) ==
    \/ place = Null
    \/ place.placeId \in existing
    \/ LET farKm == minDistanceKmToAnchors(anchors, place.location)
       IN  farKm >= Infinity \/ farKm > GuardrailKm * 1000

\* route.ts 158-204: one iteration of the validation loop.
PostResolveHint ==
    /\ pc = "resolve"
    /\ hintIdx <= Len(Take(hints, MAX_VALIDATE))
    /\ LET h == hints[hintIdx]
           res == resolveHint(h)
       IN  /\ calls' = [calls EXCEPT !.details = @ + res.details,
                                     !.findPlace = @ + res.findPlace]
           /\ resolved' = Append(resolved, IF res.place = Null THEN 0
                                           ELSE res.place.placeId)
           /\ validated' =
                IF rejected(res.place, anchorsOf(day), existingPlaceIdsOf(day))
                THEN validated
                ELSE Append(validated, WebCandidate(res.place, h))
    /\ hintIdx' = hintIdx + 1
    /\ UNCHANGED <<storeVars, cache, pc, req, env, fetched, byId, hints, candidates,
                   streamVars, response, insVars, appVars,
                   input, nearbyErrors, enrichExit>>

\* route.ts 206, 317-329: the loop is over; its candidates are merged.
PostMergeWeb ==
    /\ pc = "resolve"
    /\ hintIdx > Len(Take(hints, MAX_VALIDATE))
    /\ byId' = MergeWeb(byId, validated)
    /\ pc' = "rank"
    /\ UNCHANGED <<storeVars, cache, req, env, fetched, enrichVars, calls, candidates,
                   streamVars, response, insVars, appVars,
                   input, nearbyErrors>>

\* route.ts 340-384, 449-454, 506: the candidates annotated; no candidate,
\* or no ranker key: the response; otherwise the ranker is called.
PostRank ==
    /\ pc = "rank"
    /\ candidates' = computeCandidates(byId, anchorsOf(day))
    /\ IF Len(candidates') = 0
       THEN /\ Finish(JsonResponse("empty", <<>>))
            /\ UNCHANGED <<env, calls>>
       ELSE \E key \in {"set", "unset"} :
            /\ env' = [env EXCEPT !.genAi = key]
            /\ IF key = "unset"
               THEN /\ Finish(JsonResponse("deterministic",
                                deterministicSuggestions(candidates', req.limit)))
                    /\ UNCHANGED calls
               ELSE /\ calls' = [calls EXCEPT !.ranker = @ + 1]
                    /\ IF req.stream
                       THEN pc' = "stream" /\ response' = StreamResponse
                       ELSE pc' = "generate" /\ UNCHANGED response
    /\ UNCHANGED <<storeVars, cache, req, fetched, byId, enrichVars, streamVars, insVars, appVars,
                   input, nearbyErrors>>

\* The ids a ranker may name: the candidates at the given positions, and
\* ids given whether or not they are candidates (the place id of stop A, an
\* id of no place).
RankerIds(P) ==
    {candidates[i].candidateId : i \in P.positions \cap DOMAIN candidates}
    \cup P.otherIds

Selection(id) == [candidateId |-> id, whyItFits |-> "ai"]

RankerOutputs(P) ==
    UNION {[1..m -> {Selection(id) : id \in RankerIds(P)}] : m \in 0..P.maxElems}

\* route.ts 506-568: generateText returns the output or throws.
PostGenerate(P) ==
    /\ pc = "generate"
    /\ \/ /\ Finish(ErrorResponse(500, "Internal server error"))
          /\ UNCHANGED offered
       \/ \E output \in RankerOutputs(P) :
            LET suggestions == assistedSuggestions(candidates, output, req.limit)
            IN  /\ offered' = output
                /\ IF Len(suggestions) = 0
                   THEN Finish(JsonResponse("fallback",
                                deterministicSuggestions(candidates, req.limit)))
                   ELSE Finish(JsonResponse("assisted", suggestions))
    /\ UNCHANGED <<storeVars, cache, req, env, fetched, byId, enrichVars, calls,
                   candidates, seen, emitted, closed, cancelled, streamExit, insVars, appVars,
                   input, nearbyErrors>>

\* A faulty variant: the loop stops one record late.
limitReachedLate(seenIds, limit) == Cardinality(seenIds) > limit

\* route.ts 487: the loop stops once limit ids were emitted.
limitReached(seenIds, limit) == Cardinality(seenIds) >= limit

\* route.ts 463-465: an element that names no candidate, or one already
\* emitted, is skipped.
skipped(c, seenIds) == c = Null \/ c.candidateId \in seenIds

\* route.ts 462-488: one element of the ranker's stream.
StreamNext(P) ==
    /\ pc = "stream"
    /\ Len(offered) < P.maxElems
    /\ \E id \in RankerIds(P) :
        LET sel == Selection(id)
            c == candidateByIdGet(candidates, sel.candidateId)
        IN  /\ offered' = Append(offered, sel)
            /\ IF skipped(c, seen)
               THEN UNCHANGED <<seen, emitted, closed, streamExit, pc>>
               ELSE IF cancelled
               THEN \* enqueue on a cancelled stream throws; so do the enqueue
                    \* of the catch block and the close of the finally block
                    /\ seen' = seen \cup {c.candidateId}
                    /\ streamExit' = "cancelled"
                    /\ pc' = "done"
                    /\ UNCHANGED <<emitted, closed>>
               ELSE /\ seen' = seen \cup {c.candidateId}
                    /\ emitted' = Append(emitted,
                                         [kind |-> "suggestion",
                                          value |-> Suggestion(c, sel.whyItFits)])
                    /\ IF limitReached(seen', req.limit)
                       THEN closed' = TRUE /\ streamExit' = "limit" /\ pc' = "done"
                       ELSE UNCHANGED <<closed, streamExit, pc>>
    /\ UNCHANGED <<storeVars, cache, req, env, fetched, byId, enrichVars, calls,
                   candidates, response, cancelled, insVars, appVars,
                   input, nearbyErrors>>

\* A faulty variant: the error record is put in front of the records sent.
withErrorRecordFirst(records, msg) == <<[kind |-> "error", value |-> msg]>> \o records

\* route.ts 490-491: the error record enqueued by the catch block.
withErrorRecord(records, msg) == Append(records, [kind |-> "error", value |-> msg])

\* route.ts 489-494: the ranker's stream throws.
StreamFail ==
    /\ pc = "stream"
    /\ emitted' = IF cancelled THEN emitted
                   ELSE withErrorRecord(emitted, "ranker failed")
    /\ closed' = TRUE
    /\ streamExit' = "error"
    /\ pc' = "done"
    /\ UNCHANGED <<storeVars, cache, req, env, fetched, byId, enrichVars, calls,
                   candidates, offered, seen, response, cancelled, insVars, appVars,
                   input, nearbyErrors>>

\* route.ts 462, 492-494: the ranker's stream is exhausted.
StreamEnd ==
    /\ pc = "stream"
    /\ closed' = TRUE
    /\ streamExit' = "ended"
    /\ pc' = "done"
    /\ UNCHANGED <<storeVars, cache, req, env, fetched, byId, enrichVars, calls,
                   candidates, offered, seen, emitted, response, cancelled, insVars, appVars,
                   input, nearbyErrors>>

Next(P) ==
    \/ PostStart(P)
    \/ PostNearby(P)
    \/ PostEnrichSearch(P)
    \/ PostResolveHint
    \/ PostMergeWeb
    \/ PostRank
    \/ PostGenerate(P)
    \/ StreamNext(P)
    \/ StreamFail
    \/ StreamEnd

\* The solver on its own: any anchors, any candidate location.
LngChoices == {0, 5, 20, 45}

AnchorLists ==
    UNION {{[i \in 1..m |-> [destinationId |-> 100 + i, location |-> Coord(xs[i])]] :
                xs \in [1..m -> LngChoices]} : m \in 0..MaxAnchors}

InitInsert ==
    /\ day = <<>>
    /\ now = StartTime
    /\ cache = EmptyCache
    /\ Idle
    /\ insAnchors \in AnchorLists
    /\ insCand \in {Coord(x) : x \in LngChoices}
    /\ insResult = Null

Solve ==
    /\ insResult = Null
    /\ insResult' = bestInsertAfterDestinationIdForCandidate(insAnchors, insCand)
    /\ UNCHANGED <<storeVars, cache, pc, input, req, env, nearbyErrors, fetched, byId,
                   enrichVars, calls, candidates, streamVars, response, insAnchors,
                   insCand, appVars>>

SpecInsert == InitInsert /\ [][Solve]_vars

\* The aggregation-centred specification.
Spec == Init(WideInputs) /\ [][Next(WideInputs)]_vars

\* The ranking-centred specification.
SpecRank == Init(RankInputs) /\ [][Next(RankInputs)]_vars

\* The eligibility-centred specification.
SpecEligible == Init(NoteInputs) /\ [][Next(NoteInputs)]_vars

\* The inputs of the specification with cancellation.
CancelInputs ==
    [days |-> {<<StopOfKind("A", 1)>>},
     nearby |-> << {OkResponse(<<RawResult(2), RawResult(6)>>)},
                   {OkResponse(<<>>)},
                   {OkResponse(<<>>), HttpFailure} >>,
     hintLists |-> {<<Hint(5, 0, <<"s9">>, "d5")>>},
     caches |-> {"empty"},
     limits |-> {<<>>} \cup {<<n>> : n \in 1..MaxLimit},
     positions |-> {1, 2},
     otherIds |-> {BogusId},
     maxElems |-> MaxRankerElems]

\* The caller cancels the stream (disconnects).  The stream is closed for
\* the reader; the underlying source has no cancel callback (route.ts
\* 459-496), so the loop of start() is not told.
StreamCancel ==
    /\ pc = "stream"
    /\ ~cancelled
    /\ cancelled' = TRUE
    /\ closed' = TRUE
    /\ UNCHANGED <<storeVars, cache, pc, input, req, env, nearbyErrors, fetched, byId,
                   enrichVars, calls, candidates, offered, seen, emitted, streamExit,
                   response, insVars, appVars>>

\* The specification with cancellation.
SpecCancel == Init(CancelInputs) /\ [][Next(CancelInputs) \/ StreamCancel]_vars

\* All that the Discover pipeline of one invocation keeps.
pipelineVars ==
    <<day, pc, input, req, env, nearbyErrors, fetched, byId, enrichVars, calls,
      candidates, streamVars, response, insVars>>

\* The cache keys of the enrichment searches of two days.
SearchKeys == {dayKey(<<StopOfKind("A", 1)>>), dayKey(<<StopOfKind("B", 1)>>)}

\* serpapi 160-177: a call reads the cache; a hit returns the cached hints,
\* a miss sends the request to the provider.
SearchBegin ==
    /\ Len(searchLog) < MaxSearches
    /\ \E key \in SearchKeys :
        LET got == memoryCacheGet(cache, key, now)
            fresh == key \in DOMAIN cache /\ ~(now > cache[key].expiresAt)
            call == [key |-> key, readAt |-> now, foundFresh |-> fresh,
                     requests |-> IF got.hit THEN 0 ELSE 1,
                     state |-> IF got.hit THEN "hit" ELSE "fetching",
                     value |-> IF got.hit THEN got.value ELSE <<>>,
                     answeredAt |-> IF got.hit THEN now ELSE 0]
        IN  /\ cache' = got.store
            /\ searchLog' = Append(searchLog, call)
    /\ UNCHANGED <<pipelineVars, now, ticks, tripVars>>

\* serpapi 176-194, 283-285: the provider answers a call; hints are stored
\* for 12 hours and returned, an error is thrown.
SearchAnswer ==
    /\ \E i \in DOMAIN searchLog, upstream \in SerpAnswers(CacheInputs) :
        /\ searchLog[i].state = "fetching"
        /\ IF IsThrown(upstream)
           THEN /\ searchLog' = [searchLog EXCEPT ![i].state = "threw",
                                                  ![i].answeredAt = now]
                /\ UNCHANGED cache
           ELSE /\ searchLog' = [searchLog EXCEPT ![i].state = "stored",
                                                  ![i].value = upstream.hints,
                                                  ![i].answeredAt = now]
                /\ cache' = memoryCacheSet(cache, searchLog[i].key, upstream.hints,
                                           TtlMs, now)
    /\ UNCHANGED <<pipelineVars, now, ticks, tripVars>>

\* Time passes: a millisecond, or the time an entry lives.
Tick ==
    /\ ticks < MaxTicks
    /\ \E d \in {1, TtlMs} : now' = now + d
    /\ ticks' = ticks + 1
    /\ UNCHANGED <<pipelineVars, cache, searchLog, tripVars>>

InitCache ==
    /\ day = <<>>
    /\ now = StartTime
    /\ cache = EmptyCache
    /\ Idle
    /\ InsIdle

\* The searches of a warm server over time.
SpecCache == InitCache /\ [][SearchBegin \/ SearchAnswer \/ Tick]_vars

\* The ranker's stream does not stay silent for ever: it yields an element,
\* ends or fails, and the loop of start() then runs.
SpecRankFair ==
    SpecRank /\ WF_vars(StreamNext(RankInputs) \/ StreamFail \/ StreamEnd)


(***************************************************************************)
(* The trip store (src/lib/kv.ts) and the trip API                         *)
(* (src/app/api/trips).  Ids and tokens are numbers; 0 is an absent one.   *)
(***************************************************************************)

\* At most this many requests are received by the trip API.
MaxRequests == 2

\* A token nobody was given.
UnknownToken == 99

\* client.set / mset of one key.
KvSet(map, key, value) ==
    [k \in DOMAIN map \cup {key} |-> IF k = key THEN value ELSE map[k]]

\* client.del of keys.
KvDel(map, keys) == [k \in DOMAIN map \ keys |-> map[k]]

\* kv.ts 91-107.
getTrip(store, tripId) ==
    IF tripId \in DOMAIN store.trip THEN store.trip[tripId] ELSE NoTrip

\* kv.ts 109-111: the key is the id the document carries.
saveTrip(store, trip) == [store EXCEPT !.trip = KvSet(@, trip.id, trip)]

\* kv.ts 113-124.
deleteTrip(store, tripId) == [store EXCEPT !.trip = KvDel(@, {tripId})]

\* kv.ts 126-168: the three records of the links of a trip, set together.
createTripCapabilityLinks(store, tripId, viewToken, editToken) ==
    [store EXCEPT
        !.capView = KvSet(@, viewToken,
                          [tripId |-> tripId, role |-> "view", viewToken |-> 0]),
        !.capEdit = KvSet(@, editToken,
                          [tripId |-> tripId, role |-> "edit", viewToken |-> viewToken]),
        !.tripCaps = KvSet(@, tripId,
                           [tripId |-> tripId, viewToken |-> viewToken,
                            editToken |-> editToken])]

\* getTripAccessByToken returning null.
NoAccess == [role |-> "none", trip |-> NoTrip,
             tokens |-> [viewToken |-> 0, editToken |-> 0]]

\* kv.ts 170-206: an edit link, a view link, or the id of a trip, which is
\* treated as an edit link.
getTripAccessByToken(store, token) ==
    IF token \in DOMAIN store.capEdit /\ store.capEdit[token].tripId # 0
    THEN LET trip == getTrip(store, store.capEdit[token].tripId)
         IN  IF trip = NoTrip THEN NoAccess
             ELSE [role |-> "edit", trip |-> trip,
                   tokens |-> [viewToken |-> store.capEdit[token].viewToken,
                               editToken |-> token]]
    ELSE IF token \in DOMAIN store.capView /\ store.capView[token].tripId # 0
    THEN LET trip == getTrip(store, store.capView[token].tripId)
         IN  IF trip = NoTrip THEN NoAccess
             ELSE [role |-> "view", trip |-> trip,
                   tokens |-> [viewToken |-> token, editToken |-> 0]]
    ELSE LET legacyTrip == getTrip(store, token)
         IN  IF legacyTrip # NoTrip
             THEN [role |-> "edit", trip |-> legacyTrip,
                   tokens |-> [viewToken |-> 0, editToken |-> token]]
             ELSE NoAccess

\* kv.ts 214-231: the record of the links of the trip is read and the keys
\* it names are deleted in one del.  "partial": the read failed (getJson
\* answers null), so only the record itself is deleted; "failed": del threw.
deleteCapabilitiesForTrip(store, tripId, outcome) ==
    LET known == outcome = "deleted" /\ tripId \in DOMAIN store.tripCaps
        viewKeys == IF known /\ store.tripCaps[tripId].viewToken # 0
                    THEN {store.tripCaps[tripId].viewToken} ELSE {}
        editKeys == IF known /\ store.tripCaps[tripId].editToken # 0
                    THEN {store.tripCaps[tripId].editToken} ELSE {}
    IN  IF outcome = "failed" THEN store
        ELSE [store EXCEPT !.tripCaps = KvDel(@, {tripId}),
                           !.capView = KvDel(@, viewKeys),
                           !.capEdit = KvDel(@, editKeys)]

DeleteCapsOutcomes == {"deleted", "partial", "failed"}

\* trips/route.ts 17-33: the trip POST /api/trips creates.
newTrip(tripId, dayId) ==
    [id |-> tripId,
     days |-> <<[id |-> dayId, label |-> "Day 1", destinations |-> <<>>]>>]

\* trips/route.ts 6-59: the store after a POST /api/trips that answered 201;
\* generateId gave id0 .. id0 + 3.
createTrip(store, id0) ==
    createTripCapabilityLinks(saveTrip(store, newTrip(id0, id0 + 1)),
                              id0, id0 + 2, id0 + 3)

\* A request as received: method, the token of the URL, the body;
\* call: the updateTrip call that sent it (0: another caller).
NewRequest(method, token, body, call) ==
    [method |-> method, token |-> token, body |-> body, call |-> call,
     pc |-> "access", tripId |-> 0, status |-> 0, error |-> "",
     trip |-> NoTrip, accessRole |-> "", tokens |-> NoAccess.tokens,
     admitted |-> FALSE]

\* NextResponse.json({ error }, { status }).
Respond(r, status, error) ==
    [r EXCEPT !.pc = "done", !.status = status, !.error = error]

\* NextResponse.json({ trip, accessRole, tokens }).
RespondTrip(r, trip, role, tokens) ==
    [r EXCEPT !.pc = "done", !.status = 200, !.trip = trip, !.accessRole = role,
              !.tokens = tokens]

\* A faulty variant: every link may write.
isReadOnlyLinkNever(role) == FALSE

\* [tripId]/route.ts 49, 97; discover/route.ts 219.
isReadOnlyLink(role) == role # "edit"

\* A faulty variant: the id of the body is not compared.
idMismatchIgnored(updates, tripId) == FALSE

\* [tripId]/route.ts 57.
idMismatch(updates, tripId) == updates.id # tripId

\* Everything but the trip store and its API.
discoverVars == <<pipelineVars, cache, now, cacheVars>>

\* A caller sends a request to the trip API or to Discover.
ApiRequest(P) ==
    /\ Len(srv) < MaxRequests
    /\ \E method \in P.methods, token \in P.tokens :
        \E body \in IF method = "PUT" THEN P.bodies ELSE {NoTrip} :
            srv' = Append(srv, NewRequest(method, token, body, 0))
    /\ UNCHANGED <<kv, cl, upd, discoverVars>>

\* [tripId]/route.ts 15-29, 44-62, 92-101; discover/route.ts 213-222: the
\* access check of a request, and what follows it without touching the
\* store.  A Discover request admitted goes on to the pipeline.
ApiAccess ==
    /\ \E i \in DOMAIN srv :
        /\ srv[i].pc = "access"
        /\ LET r == srv[i]
               access == getTripAccessByToken(kv, r.token)
           IN  srv' = [srv EXCEPT ![i] =
                    IF access = NoAccess THEN Respond(r, 404, "Trip not found")
                    ELSE IF r.method = "GET"
                    THEN RespondTrip(r, access.trip, access.role, access.tokens)
                    ELSE IF isReadOnlyLink(access.role)
                    THEN Respond(r, 403, "Read-only link")
                    ELSE IF r.method = "DISCOVER"
                    THEN [r EXCEPT !.pc = "done", !.admitted = TRUE]
                    ELSE IF r.method = "PUT"
                    THEN IF idMismatch(r.body, access.trip.id)
                         THEN Respond(r, 400, "Trip ID mismatch")
                         ELSE [r EXCEPT !.pc = "save", !.tripId = access.trip.id,
                                        !.tokens = access.tokens]
                    ELSE [r EXCEPT !.pc = "delete", !.tripId = access.trip.id]]
    /\ UNCHANGED <<kv, cl, upd, discoverVars>>

\* [tripId]/route.ts 64-77: saveTrip and the response of PUT.
PutSave ==
    /\ \E i \in DOMAIN srv, success \in BOOLEAN :
        /\ srv[i].pc = "save"
        /\ IF success
           THEN /\ kv' = saveTrip(kv, srv[i].body)
                /\ srv' = [srv EXCEPT ![i] =
                            RespondTrip(srv[i], srv[i].body, "edit", srv[i].tokens)]
           ELSE /\ kv' = kv
                /\ srv' = [srv EXCEPT ![i] =
                            Respond(srv[i], 500, "Failed to update trip")]
    /\ UNCHANGED <<cl, upd, discoverVars>>

\* [tripId]/route.ts 102-109: deleteTrip.
DeleteTrip ==
    /\ \E i \in DOMAIN srv, success \in BOOLEAN :
        /\ srv[i].pc = "delete"
        /\ IF success
           THEN /\ kv' = deleteTrip(kv, srv[i].tripId)
                /\ srv' = [srv EXCEPT ![i].pc = "delcaps"]
           ELSE /\ kv' = kv
                /\ srv' = [srv EXCEPT ![i] =
                            Respond(srv[i], 500, "Failed to delete trip")]
    /\ UNCHANGED <<cl, upd, discoverVars>>

\* [tripId]/route.ts 111-112: deleteCapabilitiesForTrip, its result unused,
\* and { success: true }.
DeleteCaps ==
    /\ \E i \in DOMAIN srv, outcome \in DeleteCapsOutcomes :
        /\ srv[i].pc = "delcaps"
        /\ kv' = deleteCapabilitiesForTrip(kv, srv[i].tripId, outcome)
        /\ srv' = [srv EXCEPT ![i].pc = "done", ![i].status = 200]
    /\ UNCHANGED <<cl, upd, discoverVars>>

\* Two trips created by POST /api/trips: trip 1 (view link 3, edit link 4)
\* and trip 5 (view link 7, edit link 8).
TwoTrips == createTrip(createTrip(EmptyKv, 1), 5)

\* A document of a trip with a day renamed.
Renamed(tripId) ==
    [id |-> tripId,
     days |-> <<[id |-> tripId + 1, label |-> "Renamed", destinations |-> <<>>]>>]

\* Callers of the API: they use the id of trip 1, its links, the edit link
\* of trip 5 or a token nobody was given.
StoreInputs ==
    [stores |-> {TwoTrips},
     methods |-> {"GET", "PUT", "DELETE", "DISCOVER"},
     tokens |-> {1, 3, 4, 8, UnknownToken},
     bodies |-> {Renamed(1), Renamed(5)}]

InitStore(P) ==
    /\ day = <<>>
    /\ now = StartTime
    /\ cache = EmptyCache
    /\ PipelineIdle
    /\ InsIdle
    /\ CacheIdle
    /\ kv \in P.stores
    /\ srv = <<>>
    /\ cl = <<>>
    /\ upd = <<>>

NextStore(P) ==
    \/ ApiRequest(P)
    \/ ApiAccess
    \/ PutSave
    \/ DeleteTrip
    \/ DeleteCaps

\* The trip API serving any callers.
SpecStore == InitStore(StoreInputs) /\ [][NextStore(StoreInputs)]_vars


(***************************************************************************)
(* The trip page (part_016), its day tabs (part_000) and the useTrip hook  *)
(* (part_019).                                                             *)
(***************************************************************************)

\* At most this many updateTrip calls are made.
MaxCalls == 2

\* Days are added up to this many.
MaxDays == 3

\* ulid generateId: the n-th id generated in a browser.
generateId(n) == 100 + n

\* `Day ${n}`.
DayLabel(n) == <<"Day 1", "Day 2", "Day 3", "Day 4", "Day 5", "Day 6">>[n]

\* The handler returned without calling updateTrip.
NoCall == NoTrip

\* An id no day or stop has.
UnknownId == 98

DayIds(trip) == {trip.days[i].id : i \in DOMAIN trip.days}

\* Array.prototype.findIndex on the ids, counted from 1; 0: not found.
findIndex(days, dayId) ==
    IF \E i \in DOMAIN days : days[i].id = dayId
    THEN CHOOSE i \in DOMAIN days :
            /\ days[i].id = dayId
            /\ \A j \in 1..(i - 1) : days[j].id # dayId
    ELSE 0

\* days.filter((d) => d.id !== dayId).
WithoutDay(days, dayId) ==
    LET Keep(d) == d.id # dayId IN SelectSeq(days, Keep)

\* part_016 284-296.
handleAddDay(trip, newId) ==
    [trip EXCEPT !.days =
        Append(@, [id |-> newId, label |-> DayLabel(Len(@) + 1), destinations |-> <<>>])]

\* A faulty variant: the last day may be deleted.
handleDeleteDayUnguarded(trip, dayId) ==
    [trip EXCEPT !.days = WithoutDay(@, dayId)]

\* part_016 301-310; app/trip/[tripId]/page.tsx 64-72.
handleDeleteDay(trip, dayId) ==
    IF Len(trip.days) <= 1 THEN NoCall
    ELSE [trip EXCEPT !.days = WithoutDay(@, dayId)]

\* part_016 318-333: direction -1 is 'left', 1 is 'right'.
handleReorderDay(trip, dayId, direction) ==
    LET dayIndex == findIndex(trip.days, dayId)
        newIndex == dayIndex + direction
    IN  IF dayIndex = 0 THEN NoCall
        ELSE IF newIndex < 1 \/ newIndex > Len(trip.days) THEN NoCall
        ELSE [trip EXCEPT !.days =
                [i \in DOMAIN @ |-> IF i = dayIndex THEN @[newIndex]
                                    ELSE IF i = newIndex THEN @[dayIndex]
                                    ELSE @[i]]]

\* dnd-kit arrayMove as part_000 204 calls it: the element at from is taken
\* out and put in at to.
arrayMove(array, from, to) ==
    LET rest == SubSeq(array, 1, from - 1) \o SubSeq(array, from + 1, Len(array))
    IN  SubSeq(rest, 1, to - 1) \o <<array[from]>> \o SubSeq(rest, to, Len(rest))

\* part_016 338-347.
handleReorderDays(trip, newDays) == [trip EXCEPT !.days = newDays]

\* part_016 354-364.
handleRenameDay(trip, dayId, newLabel) ==
    [trip EXCEPT !.days =
        [i \in DOMAIN @ |-> IF @[i].id = dayId THEN [@[i] EXCEPT !.label = newLabel]
                            ELSE @[i]]]

\* destinations.filter((d) => d.id !== destinationId).
WithoutDestination(destinations, destinationId) ==
    LET Keep(d) == d.id # destinationId IN SelectSeq(destinations, Keep)

\* A faulty variant: the stop is appended to the target day and stays in
\* the source day.
handleMoveDestinationCopying(trip, fromDayId, destinationId, toDayId) ==
    LET from == findIndex(trip.days, fromDayId)
        to == findIndex(trip.days, toDayId)
    IN  IF fromDayId = toDayId THEN NoCall
        ELSE IF from = 0 \/ to = 0 THEN NoCall
        ELSE IF \A j \in DOMAIN trip.days[from].destinations :
                    trip.days[from].destinations[j].id # destinationId
        THEN NoCall
        ELSE LET destination ==
                    trip.days[from].destinations[
                        CHOOSE j \in DOMAIN trip.days[from].destinations :
                            trip.days[from].destinations[j].id = destinationId]
             IN  [trip EXCEPT !.days =
                    [i \in DOMAIN @ |->
                        IF @[i].id = toDayId
                        THEN [@[i] EXCEPT !.destinations = Append(@, destination)]
                        ELSE @[i]]]

\* part_016 367-411.
handleMoveDestination(trip, fromDayId, destinationId, toDayId) ==
    LET from == findIndex(trip.days, fromDayId)
        to == findIndex(trip.days, toDayId)
    IN  IF fromDayId = toDayId THEN NoCall
        ELSE IF from = 0 \/ to = 0 THEN NoCall
        ELSE IF \A j \in DOMAIN trip.days[from].destinations :
                    trip.days[from].destinations[j].id # destinationId
        THEN NoCall
        ELSE LET destination ==
                    trip.days[from].destinations[
                        CHOOSE j \in DOMAIN trip.days[from].destinations :
                            /\ trip.days[from].destinations[j].id = destinationId
                            /\ \A h \in 1..(j - 1) :
                                trip.days[from].destinations[h].id # destinationId]
             IN  [trip EXCEPT !.days =
                    [i \in DOMAIN @ |->
                        IF @[i].id = fromDayId
                        THEN [@[i] EXCEPT !.destinations =
                                    WithoutDestination(@, destinationId)]
                        ELSE IF @[i].id = toDayId
                        THEN [@[i] EXCEPT !.destinations = Append(@, destination)]
                        ELSE @[i]]]

\* part_019 19-22: the state of the hook before the trip is fetched.
NewClient(token) == [token |-> token, accessRole |-> "edit", trip |-> NoTrip]

\* part_016 285, part_019 63-66: the page shows a trip it may edit.
CanEdit(c) == cl[c].trip # NoTrip /\ cl[c].accessRole = "edit"

\* { ...trip, ...updates }.
Spread(trip, updates) ==
    [f \in DOMAIN trip \cup DOMAIN updates |->
        IF f \in DOMAIN updates THEN updates[f] ELSE trip[f]]

\* part_019 61-80: the local trip is replaced at once and the PUT is sent;
\* the call keeps the trip of the render it was made in.
updateTrip(c, updates, op, args) ==
    LET trip == cl[c].trip
        updatedTrip == Spread(trip, updates)
    IN  /\ Len(upd) < MaxCalls
        /\ cl' = [cl EXCEPT ![c].trip = updatedTrip]
        /\ srv' = Append(srv, NewRequest("PUT", cl[c].token, updatedTrip, Len(upd) + 1))
        /\ upd' = Append(upd, [client |-> c, op |-> op, args |-> args, base |-> trip,
                               sent |-> updatedTrip, req |-> Len(srv) + 1,
                               settled |-> FALSE])
        /\ UNCHANGED <<kv, discoverVars>>

\* part_019 25-55: the page is opened and the trip fetched; GET reads the
\* store once ([tripId]/route.ts 16).
FetchTrip ==
    /\ \E c \in DOMAIN cl :
        LET access == getTripAccessByToken(kv, cl[c].token)
        IN  /\ cl[c].trip = NoTrip
            /\ access # NoAccess
            /\ cl' = [cl EXCEPT ![c].trip = access.trip, ![c].accessRole = access.role]
    /\ UNCHANGED <<kv, srv, upd, discoverVars>>

AddDay ==
    \E c \in DOMAIN cl :
        /\ CanEdit(c)
        /\ Len(cl[c].trip.days) < MaxDays
        /\ updateTrip(c, handleAddDay(cl[c].trip, generateId(Len(upd) + 1)),
                      "addDay", <<>>)

DeleteDay ==
    \E c \in DOMAIN cl :
        /\ CanEdit(c)
        /\ \E dayId \in DayIds(cl[c].trip) :
            LET updates == handleDeleteDay(cl[c].trip, dayId)
            IN  updates # NoCall /\ updateTrip(c, updates, "deleteDay", <<dayId>>)

ReorderDay ==
    \E c \in DOMAIN cl :
        /\ CanEdit(c)
        /\ \E dayId \in DayIds(cl[c].trip), direction \in {-1, 1} :
            LET updates == handleReorderDay(cl[c].trip, dayId, direction)
            IN  updates # NoCall
                    /\ updateTrip(c, updates, "reorderDay", <<dayId, direction>>)

\* part_000 198-206: a tab dragged onto another one.
ReorderDays ==
    \E c \in DOMAIN cl :
        /\ CanEdit(c)
        /\ \E oldIndex, newIndex \in DOMAIN cl[c].trip.days :
            /\ oldIndex # newIndex
            /\ updateTrip(c, handleReorderDays(cl[c].trip,
                                arrayMove(cl[c].trip.days, oldIndex, newIndex)),
                          "reorderDays", <<oldIndex, newIndex>>)

RenameDay ==
    \E c \in DOMAIN cl :
        /\ CanEdit(c)
        /\ \E dayId \in DayIds(cl[c].trip) :
            /\ cl[c].trip.days[findIndex(cl[c].trip.days, dayId)].label # "Renamed"
            /\ updateTrip(c, handleRenameDay(cl[c].trip, dayId, "Renamed"),
                          "renameDay", <<dayId>>)

\* DayEditor 256-268: a stop of a day and a day chosen in the modal.
MoveDestination ==
    \E c \in DOMAIN cl :
        /\ CanEdit(c)
        /\ \E fromDayId \in DayIds(cl[c].trip), toDayId \in DayIds(cl[c].trip) :
            \E j \in DOMAIN cl[c].trip.days[findIndex(cl[c].trip.days, fromDayId)].destinations :
                LET destinationId ==
                        cl[c].trip.days[findIndex(cl[c].trip.days, fromDayId)].destinations[j].id
                    updates == handleMoveDestination(cl[c].trip, fromDayId,
                                                     destinationId, toDayId)
                IN  updates # NoCall
                        /\ updateTrip(c, updates, "move",
                                      <<fromDayId, destinationId, toDayId>>)

\* part_019 82-103: the response of a call arrives: the local trip becomes
\* the trip of the response, or the trip of the render the call was made in.
Settle ==
    /\ \E k \in DOMAIN upd :
        LET r == srv[upd[k].req]
            c == upd[k].client
        IN  /\ ~upd[k].settled
            /\ r.pc = "done"
            /\ upd' = [upd EXCEPT ![k].settled = TRUE]
            /\ cl' = [cl EXCEPT ![c] =
                        IF r.status = 200
                        THEN [@ EXCEPT !.trip = r.trip, !.accessRole = r.accessRole]
                        ELSE [@ EXCEPT !.trip = upd[k].base]]
    /\ UNCHANGED <<kv, srv, discoverVars>>

\* The store after POST /api/trips; n pages about to be opened with the
\* edit link.
InitClients(store, n) ==
    /\ day = <<>>
    /\ now = StartTime
    /\ cache = EmptyCache
    /\ PipelineIdle
    /\ InsIdle
    /\ CacheIdle
    /\ kv = store
    /\ srv = <<>>
    /\ cl = [c \in 1..n |-> NewClient(4)]
    /\ upd = <<>>

NextDays ==
    \/ FetchTrip
    \/ AddDay
    \/ DeleteDay
    \/ ReorderDay
    \/ ReorderDays
    \/ RenameDay
    \/ ApiAccess
    \/ PutSave
    \/ Settle

\* Two pages editing the days of a newly created trip.
SpecDays == InitClients(createTrip(EmptyKv, 1), 2) /\ [][NextDays]_vars

\* One page editing the days of a newly created trip.
SpecSync == InitClients(createTrip(EmptyKv, 1), 1) /\ [][NextDays]_vars

\* A trip of three days with stops 11 and 12 on the first day and 13 on
\* the second.
TripWithStops ==
    [id |-> 1,
     days |-> <<[id |-> 2, label |-> "Day 1", destinations |-> <<[id |-> 11], [id |-> 12]>>],
                [id |-> 21, label |-> "Day 2", destinations |-> <<[id |-> 13]>>],
                [id |-> 22, label |-> "Day 3", destinations |-> <<>>]>>]

NextMoves ==
    \/ FetchTrip
    \/ MoveDestination
    \/ ApiAccess
    \/ PutSave
    \/ Settle

\* A page moving the stops of a trip.
SpecMoves ==
    InitClients(saveTrip(createTrip(EmptyKv, 1), TripWithStops), 1) /\ [][NextMoves]_vars


(***************************************************************************)
(* Properties.                                                             *)
(***************************************************************************)

\* The ids sent to the caller: in the JSON response or on the stream.
SentSuggestions ==
    {response.suggestions[i] : i \in DOMAIN response.suggestions}
    \cup {emitted[i].value : i \in {j \in DOMAIN emitted : emitted[j].kind = "suggestion"}}

SentIds == {sg.candidateId : sg \in SentSuggestions}

\* The ranker answered (it did not throw) and the delivery is over.
RankerAnswered ==
    /\ pc = "done"
    /\ \/ response.mode \in {"assisted", "fallback"}
       \/ response.mode = "stream" /\ streamExit \in {"ended", "limit"}

\* C1: in assisted mode, batch or streaming, a candidateId returned by the
\* ranker that was not in the candidate summary submitted to it (the first
\* 60 candidates) never appears in the suggestions sent.
C1_OnlySubmittedIds ==
    \A i \in DOMAIN offered :
        offered[i].candidateId \notin candidateSummaryIds(candidates)
            => offered[i].candidateId \notin SentIds

\* C2: whenever the candidate set is non-empty and the ranker's answer holds
\* no usable selection, the deterministic selection is sent instead, so the
\* list sent is not empty; batch and streaming alike.
C2_FallbackWhenNothingUsable ==
    ( /\ RankerAnswered
      /\ Len(candidates) > 0
      /\ \A i \in DOMAIN offered :
            candidateByIdGet(candidates, offered[i].candidateId) = Null )
        => SentSuggestions # {}

\* The distinct ids of candidates among the elements received.
ValidOffered == {offered[i].candidateId : i \in DOMAIN offered} \cap Ids(candidates)

SuggestionRecords == SelectSeq(emitted, LAMBDA r : r.kind = "suggestion")

\* C3, the states: no candidateId is emitted twice, and a stream that ended
\* without failure sent min(N, number of distinct valid ids offered) records.
C3_StreamCount ==
    /\ \A i, j \in DOMAIN SuggestionRecords :
            SuggestionRecords[i].value.candidateId = SuggestionRecords[j].value.candidateId
                => i = j
    /\ (closed /\ streamExit \in {"ended", "limit"})
            => Len(SuggestionRecords) = Min(req.limit, Cardinality(ValidOffered))

\* C3: in streaming delivery with limit N the stream emits exactly
\* min(N, number of distinct valid candidate ids offered) suggestion records,
\* never the same candidateId twice, takes no further element from the
\* ranker once N unique records were emitted, and is eventually closed.
C3_StreamExactlyN ==
    /\ []C3_StreamCount
    /\ [][Len(SuggestionRecords) >= req.limit => offered' = offered]_vars
    /\ ((pc = "stream") ~> closed)

\* C3 happens: the limit of 2 is reached after a repeated id was skipped.
C3_Witness ==
    /\ closed
    /\ streamExit = "limit"
    /\ req.limit = 2
    /\ \E i, j \in DOMAIN offered :
        i < j /\ offered[i] = offered[j] /\ offered[i].candidateId \in Ids(candidates)

ErrorRecords == SelectSeq(emitted, LAMBDA r : r.kind = "error")

\* C4: if the ranker's stream fails, the stream carries exactly one error
\* record, that record is its last record, nothing is emitted after it, and
\* the stream is closed.
C4_OneFinalErrorRecord ==
    /\ [](streamExit = "error" =>
            /\ Len(ErrorRecords) = 1
            /\ emitted[Len(emitted)].kind = "error"
            /\ closed)
    /\ [](streamExit # "error" => Len(ErrorRecords) = 0)
    /\ [][streamExit = "error" => emitted' = emitted /\ closed']_vars

\* C4 happens: the ranker fails after a suggestion was emitted.
C4_Witness ==
    /\ streamExit = "error"
    /\ Len(SuggestionRecords) >= 1

PairIndexes == 1..(Len(insAnchors) - 1)

\* The least added distance over the adjacent pairs of the anchors given.
LeastDelta ==
    CHOOSE d \in {Delta(insAnchors, insCand, i) : i \in PairIndexes} :
        \A i \in PairIndexes : d <= Delta(insAnchors, insCand, i)

\* The earliest pair that attains it.
EarliestLeast ==
    CHOOSE i \in PairIndexes :
        /\ Delta(insAnchors, insCand, i) = LeastDelta
        /\ \A j \in 1..(i - 1) : Delta(insAnchors, insCand, j) # LeastDelta

\* C5: for two or more anchors the solver returns the minimum over the
\* adjacent pairs (a, b) of dist(a,cand) + dist(cand,b) - dist(a,b), and the
\* id of a in the earliest pair that attains it.
C5_MinimalDetourEarliestPair ==
    (insResult # Null /\ Len(insAnchors) >= 2) =>
        /\ insResult.detourKm = LeastDelta
        /\ insResult.insertAfterDestinationId = insAnchors[EarliestLeast].destinationId

\* C5 happens: three anchors, both pairs attain the minimum.
C5_Witness ==
    /\ insResult # Null
    /\ Len(insAnchors) = 3
    /\ Delta(insAnchors, insCand, 1) = Delta(insAnchors, insCand, 2)
    /\ insResult.insertAfterDestinationId = insAnchors[1].destinationId

\* C6: for exactly one anchor the solver returns that anchor's id and the
\* distance from the anchor to the candidate; for no anchor it fails with
\* an error and returns no result.
C6_SingleAnchorAndEmpty ==
    insResult # Null =>
        /\ Len(insAnchors) = 1 =>
            insResult = [insertAfterDestinationId |-> insAnchors[1].destinationId,
                         detourKm |-> haversineKm(insAnchors[1].location, insCand)]
        /\ Len(insAnchors) = 0 =>
            IsThrown(insResult) /\ "detourKm" \notin DOMAIN insResult

\* C6 happens: one anchor, 22 km from the candidate.
C6_Witness ==
    /\ insResult # Null
    /\ Len(insAnchors) = 1
    /\ insResult.detourKm = 22238


\* Place p lies more than 50 km from every anchor of the day.
FarFromAnchors(p) ==
    \A i \in DOMAIN anchorsOf(day) :
        haversineKm(anchorsOf(day)[i].location, Coord(PlaceLng(p))) > GuardrailKm * 1000

\* Place p lies on an anchor of the day.
OnAnAnchor(p) ==
    \E i \in DOMAIN anchorsOf(day) :
        haversineKm(anchorsOf(day)[i].location, Coord(PlaceLng(p))) = 0

\* C7: a place resolved from an enrichment hint that lies more than 50 km
\* from every anchor is rejected: it is no validated candidate, adds neither
\* a candidate nor sources to the merged set, is never sent as an enrichment
\* result, and the enrichment pass answers no error; a resolved place on an
\* anchor is not rejected by the distance check.
C7_GuardrailRejectsFarPlaces ==
    \A k \in DOMAIN resolved :
        LET p == resolved[k]
        IN  p # 0 =>
            /\ FarFromAnchors(p) =>
                /\ p \notin Ids(validated)
                /\ \A i \in DOMAIN byId :
                    byId[i].candidateId = p =>
                        byId[i].sourceKind = "places" /\ byId[i].sources = <<>>
                /\ \A sg \in SentSuggestions :
                    sg.placeId = p => sg.sourceKind = "places" /\ sg.sources = <<>>
                /\ pc \in {"resolve", "rank"} => response = NoResponse
            /\ (OnAnAnchor(p) /\ p \notin existingPlaceIdsOf(day)) =>
                p \in Ids(validated)

\* C7 happens: place 3, found by the structured search too, was resolved
\* from a hint, lies 50.04 km from the only anchor, and is sent.
C7_Witness ==
    /\ pc = "done"
    /\ \E k \in DOMAIN resolved : resolved[k] = 3
    /\ FarFromAnchors(3)
    /\ \E sg \in SentSuggestions : sg.placeId = 3

\* The merge of the enrichment candidates is over (or there was none).
Merged == pc \in {"rank", "generate", "stream", "done"}

StructuredIds == UNION {Ids(fetched[i]) : i \in DOMAIN fetched}

\* C8: after merging, the candidate set holds at most one candidate per
\* place id, and a candidate is 'both' exactly when its id was returned by
\* a structured search and by a validated enrichment resolution; an id of
\* the structured search alone is 'places', one of enrichment alone 'web'.
C8_OnePerIdAndSourceKind ==
    Merged =>
        /\ \A i, j \in DOMAIN byId : byId[i].candidateId = byId[j].candidateId => i = j
        /\ \A i \in DOMAIN byId :
            LET c == byId[i]
                inStructured == c.candidateId \in StructuredIds
                inWeb == c.candidateId \in Ids(validated)
            IN  /\ c.sourceKind = "both" <=> (inStructured /\ inWeb)
                /\ (inStructured /\ ~inWeb) => c.sourceKind = "places"
                /\ (inWeb /\ ~inStructured) => c.sourceKind = "web"

\* The place ids that two hints resolved to.
ResolvedTwice ==
    {resolved[i] : i \in {k \in DOMAIN resolved :
                            \E j \in DOMAIN resolved : j # k /\ resolved[j] = resolved[k]}}

\* C8 happens: an id found by both sources, by enrichment twice, is 'both'.
C8_Witness ==
    /\ pc = "done"
    /\ \E i \in DOMAIN byId :
        byId[i].sourceKind = "both" /\ byId[i].candidateId \in ResolvedTwice

\* C9: no suggestion sent, in any ranking or delivery mode and from either
\* source, has the place id of a stop of the requested day.
C9_NoExistingStopSuggested ==
    \A sg \in SentSuggestions : sg.placeId \notin existingPlaceIdsOf(day)

\* C9 happens: suggestions were sent although both sources had returned the
\* place id of a stop of the day.
C9_Witness ==
    /\ pc = "done"
    /\ SentSuggestions # {}
    /\ StructuredIds \cap existingPlaceIdsOf(day) # {}
    /\ \E k \in DOMAIN resolved : resolved[k] \in existingPlaceIdsOf(day)

\* C10: an invocation makes at most one upstream request to the enrichment
\* provider, whatever the hints and whether the request succeeds or fails,
\* and none when no enrichment key is configured.
C10_OneEnrichmentRequest ==
    /\ calls.serp <= 1
    /\ env.serp # "set" => calls.serp = 0

\* C10 happens: one request returned more hints than are validated.
C10_Witness ==
    /\ pc = "done"
    /\ calls.serp = 1
    /\ Len(hints) > MAX_VALIDATE

\* The hint-to-place lookups made so far: details and find-place.
ResolutionLookups == calls.details + calls.findPlace

\* C11: an invocation makes at most 12 hint-to-place resolution lookups,
\* details and find-place lookups together, whatever the number of hints and
\* whichever details lookups fail.
C11_AtMostTwelveLookups == ResolutionLookups <= MAX_VALIDATE

\* C12: a quota error of the enrichment search ends neither the invocation
\* nor changes the candidates: the step that meets it answers nothing and
\* leaves the map as the structured searches filled it; from then on every
\* candidate is one of the structured searches, none is missing, none is
\* marked 'both' or carries sources, and the response is a suggestion
\* response, unless the ranker called afterwards fails itself.
C12_QuotaFailureIsSoft ==
    /\ [](enrichExit = "quota" =>
            /\ pc \in {"rank", "generate", "stream", "done"}
            /\ validated = <<>>
            /\ Ids(byId) = StructuredIds \ existingPlaceIdsOf(day)
            /\ Len(byId) = Cardinality(Ids(byId))
            /\ \A i \in DOMAIN byId :
                byId[i].sourceKind = "places" /\ byId[i].sources = <<>>
            /\ \A sg \in SentSuggestions :
                sg.sourceKind = "places" /\ sg.candidateId \in StructuredIds
            /\ pc = "done" =>
                \/ response.status = 200
                \/ calls.ranker = 1 /\ response.error = "Internal server error")
    /\ [][(enrichExit # "quota" /\ enrichExit' = "quota") =>
            pc' = "rank" /\ response' = NoResponse /\ byId' = byId]_vars

\* C12 happens: after a quota error, suggestions of the structured searches
\* were sent.
C12_Witness ==
    /\ enrichExit = "quota"
    /\ pc = "done"
    /\ response.status = 200
    /\ Len(response.suggestions) >= 2

\* The request is one the route accepts: an editor's, well-formed, of a day
\* of the trip.
AcceptedRequest ==
    /\ input.role = "edit"
    /\ RequestValid(input.body)
    /\ input.body.dayId = "day"

\* C13: a request for a day with zero stops is answered, without any
\* upstream call (structured search, enrichment, place lookups, ranker) and
\* without suggestions, by a 4xx rejection; an accepted request by the
\* error 400 'Add at least one destination first'.
C13_EmptyDayRejected ==
    (Len(day) = 0 /\ pc # "idle") =>
        /\ pc = "done"
        /\ calls = NoCalls
        /\ SentSuggestions = {}
        /\ response.status >= 400 /\ response.status < 500
        /\ AcceptedRequest =>
            response = ErrorResponse(400, "Add at least one destination first")

\* C13 happens: an accepted request for an empty day was answered.
C13_Witness ==
    /\ Len(day) = 0
    /\ pc = "done"
    /\ AcceptedRequest
    /\ input.body.stream
    /\ response.status = 400

\* A stop with a coordinate whose lat and lng are both finite.
FiniteStop(d) ==
    /\ d.location # Null
    /\ \A f \in {"lat", "lng"} : d.location[f] # NaN

FiniteStopIds == {day[j].id : j \in {k \in DOMAIN day : FiniteStop(day[k])}}

\* The position in the day of the stop with the given id.
PositionOf(id) == CHOOSE j \in DOMAIN day : day[j].id = id

\* C14: a request for a day that has stops, none with a finite lat and lng,
\* is answered, without any upstream call, by the error 400 'Discover
\* requires at least one mapped destination'; the anchors are exactly the
\* stops with a finite coordinate, in the order of the day, and every
\* insertion point computed is one of them.
C14_UnmappedDayRejected ==
    /\ LET a == anchorsOf(day)
       IN  /\ {a[i].destinationId : i \in DOMAIN a} = FiniteStopIds
           /\ \A i \in DOMAIN a :
                a[i].location = day[PositionOf(a[i].destinationId)].location
           /\ \A i, k \in DOMAIN a :
                i < k => PositionOf(a[i].destinationId) < PositionOf(a[k].destinationId)
    /\ \A i \in DOMAIN candidates :
            candidates[i].insertAfterDestinationId \in FiniteStopIds
    /\ (Len(day) > 0 /\ FiniteStopIds = {} /\ pc # "idle") =>
        /\ pc = "done"
        /\ calls = NoCalls
        /\ SentSuggestions = {}
        /\ response.status >= 400 /\ response.status < 500
        /\ AcceptedRequest =>
            response = ErrorResponse(400,
                            "Discover requires at least one mapped destination")

\* C14 happens: an accepted request for a day of a note and a stop with a
\* non-finite coordinate was answered.
C14_Witness ==
    /\ pc = "done"
    /\ AcceptedRequest
    /\ Len(day) = 2
    /\ day[1].location = Null
    /\ day[2].location # Null
    /\ response.error = "Discover requires at least one mapped destination"

\* The annotated candidate with the given id.
CandidateOf(id) == candidates[CHOOSE i \in DOMAIN candidates : candidates[i].candidateId = id]

\* C15: in every ranking and delivery mode each suggestion sent names a
\* candidate and carries that candidate's placeId, location, detourKm and
\* insertAfterDestinationId (and its sources and source kind); the detour
\* and the insertion point are those the solver computed for the day's
\* anchors.
C15_FieldsFromCandidate ==
    \A sg \in SentSuggestions :
        /\ sg.candidateId \in Ids(candidates)
        /\ LET c == CandidateOf(sg.candidateId)
               ins == bestInsertAfterDestinationIdForCandidate(anchorsOf(day), c.location)
           IN  /\ sg.placeId = c.placeId
               /\ sg.location = c.location
               /\ sg.detourKm = c.detourKm
               /\ sg.insertAfterDestinationId = c.insertAfterDestinationId
               /\ sg.sources = c.sources
               /\ sg.sourceKind = c.sourceKind
               /\ sg.detourKm = ins.detourKm
               /\ sg.insertAfterDestinationId = ins.insertAfterDestinationId

\* C15 happens: the ranker's choice was streamed with a detour computed
\* for a single anchor.
C15_Witness ==
    /\ pc = "done"
    /\ \E i \in DOMAIN emitted :
        /\ emitted[i].kind = "suggestion"
        /\ emitted[i].value.whyItFits = "ai"
        /\ emitted[i].value.detourKm > 0
        /\ emitted[i].value.insertAfterDestinationId = day[1].id

\* C16: without a ranker configured, the response holds min(N, number of
\* candidates) suggestions, each another candidate, in non-decreasing order
\* of detourKm, and no candidate left out has a smaller detourKm than one
\* returned.
C16_DeterministicSelection ==
    response.mode = "deterministic" =>
        LET sgs == response.suggestions
            sent == {sgs[i].candidateId : i \in DOMAIN sgs}
        IN  /\ Len(sgs) = Min(req.limit, Len(candidates))
            /\ Cardinality(sent) = Len(sgs)
            /\ sent \subseteq Ids(candidates)
            /\ \A i, j \in DOMAIN sgs : i < j => sgs[i].detourKm <= sgs[j].detourKm
            /\ \A k \in DOMAIN candidates :
                candidates[k].candidateId \notin sent =>
                    \A i \in DOMAIN sgs : candidates[k].detourKm >= sgs[i].detourKm

\* C16 happens: limit 1, and the first candidate is not the nearest.
C16_Witness ==
    /\ response.mode = "deterministic"
    /\ req.limit = 1
    /\ Len(candidates) >= 3
    /\ Len(response.suggestions) = 1
    /\ candidates[1].detourKm > response.suggestions[1].detourKm

\* C17: a request whose limit is outside 1..20 is answered 'Invalid
\* request' without any upstream call; an accepted request has a limit in
\* 1..20, 6 when omitted, and never more suggestions than the limit are
\* delivered, in the JSON response (deterministic, assisted, fallback) or
\* on the stream.
C17_NeverMoreThanLimit ==
    /\ (pc # "idle" /\ input.role = "edit" /\ ~RequestValid(input.body)) =>
        /\ pc = "done"
        /\ response = ErrorResponse(400, "Invalid request")
        /\ calls = NoCalls
    /\ (pc # "idle" /\ calls # NoCalls) =>
        /\ req.limit >= MinLimit /\ req.limit <= MaxLimitAllowed
        /\ req.limit = IF Len(input.body.limit) = 0 THEN DefaultLimit
                       ELSE input.body.limit[1]
    /\ Len(response.suggestions) <= req.limit
    /\ Len(SuggestionRecords) <= req.limit

\* C17 happens: the ranker named more candidates than the limit allows.
C17_Witness ==
    /\ response.mode = "assisted"
    /\ Len(response.suggestions) = req.limit
    /\ Cardinality(ValidOffered) > req.limit

\* The validated enrichment candidates of the given id.
WebRecordsOf(id) == SelectSeq(validated, LAMBDA c : c.candidateId = id)

RECURSIVE ConcatSources(_)
ConcatSources(cs) ==
    IF Len(cs) = 0 THEN <<>> ELSE Head(cs).sources \o ConcatSources(Tail(cs))

\* C18: a candidate found by both sources carries the description that only
\* its enrichment record has, and its source list is the structured
\* record's list followed by the enrichment records' lists, cut to 4.
C18_MergedKeepsEnrichmentDetails ==
    Merged =>
        \A i \in DOMAIN byId :
            byId[i].sourceKind = "both" =>
                LET web == WebRecordsOf(byId[i].candidateId)
                IN  /\ byId[i].sources = Take(ConcatSources(web), MaxSources)
                    /\ (\E k \in DOMAIN web : web[k].description # "")
                            => byId[i].description # ""

\* The category searches that failed, and those among them that failed with
\* the referrer-restricted-key error.
FailedCategories == {i \in DOMAIN nearbyErrors : nearbyErrors[i] # ""}

DeniedCategories ==
    {i \in FailedCategories : isRefererRestrictedKeyError(nearbyErrors[i])}

\* C19: when exactly one category search failed, and not with the
\* referrer-restricted-key error, the caller gets a suggestion response
\* (unless the ranker called afterwards fails itself), not an error.
C19_CategoryFailureIsSoft ==
    (pc = "done" /\ Cardinality(FailedCategories) = 1 /\ DeniedCategories = {}) =>
        \/ response.status = 200
        \/ calls.ranker = 1

\* C20: when the server search key is missing, or a category search failed
\* with the referrer-restricted-key error, the invocation is over with an
\* error 500 that names the misconfiguration, no suggestion was sent, and
\* no enrichment, resolution or ranking call was made.
C20_SystemicFailureIsFatal ==
    /\ env.maps = "unset" =>
        /\ pc = "done"
        /\ response = ErrorResponse(500, "Server Google Maps API key not configured")
        /\ calls = NoCalls
        /\ SentSuggestions = {}
    /\ DeniedCategories # {} =>
        /\ pc = "done"
        /\ response = ErrorResponse(500, "Misconfigured Google Maps key")
        /\ calls = [NoCalls EXCEPT !.nearby = 3]
        /\ SentSuggestions = {}

\* C21: once the caller has cancelled the stream, no further element is
\* taken from the ranker's stream and no further record is emitted.
C21_CancelStopsTheLoop ==
    [][cancelled => (offered' = offered /\ emitted' = emitted)]_vars

\* C28: for two or more anchors the solver returns the id of an anchor
\* other than the last one (the candidate goes between two anchors, never
\* after the end of the route); for a single anchor it returns that
\* anchor's id; the id returned is always the id of one of the anchors.
C28_NeverAfterLastAnchor ==
    (insResult # Null /\ Len(insAnchors) >= 1) =>
        LET n == Len(insAnchors)
            id == insResult.insertAfterDestinationId
        IN  /\ \E i \in 1..n : id = insAnchors[i].destinationId
            /\ n >= 2 => /\ id # insAnchors[n].destinationId
                         /\ \E i \in 1..(n - 1) : id = insAnchors[i].destinationId
            /\ n = 1 => id = insAnchors[1].destinationId

\* C28 happens: the candidate lies beyond the last of three anchors, nearest
\* to it, and is placed after the second.
C28_Witness ==
    /\ insResult # Null
    /\ Len(insAnchors) = 3
    /\ insAnchors[1].location.lng < insAnchors[2].location.lng
    /\ insAnchors[2].location.lng < insAnchors[3].location.lng
    /\ insAnchors[3].location.lng < insCand.lng
    /\ insResult.insertAfterDestinationId = insAnchors[2].destinationId

\* The step begins a call for key k.
BeginsCallFor(k) ==
    /\ Len(searchLog') = Len(searchLog) + 1
    /\ searchLog'[Len(searchLog')].key = k

\* What the calls made so far show: a call went upstream exactly when the
\* cache held no unexpired entry for its key; a call served from the cache
\* got the hints an earlier call stored at most 12 hours before; every
\* entry of the cache is the answer to a call, kept for 12 hours.
C29_CallsAndEntries ==
    /\ \A i \in DOMAIN searchLog :
        LET c == searchLog[i]
        IN  /\ c.requests = IF c.foundFresh THEN 0 ELSE 1
            /\ c.state = "hit" =>
                \E j \in 1..(i - 1) :
                    /\ searchLog[j].state = "stored"
                    /\ searchLog[j].key = c.key
                    /\ searchLog[j].value = c.value
                    /\ searchLog[j].answeredAt <= c.readAt
                    /\ c.readAt <= searchLog[j].answeredAt + TtlMs
    /\ \A k \in DOMAIN cache :
        \E j \in DOMAIN searchLog :
            /\ searchLog[j].state = "stored"
            /\ searchLog[j].key = k
            /\ cache[k] = [value |-> searchLog[j].value,
                           expiresAt |-> searchLog[j].answeredAt + TtlMs]

\* C29: serpapiGoogleMapsSearch goes upstream exactly when the cache holds
\* no unexpired entry for the key; hints returned are stored for 12 hours
\* and served without a request until they expire; an expired entry is
\* removed when read; a failed request stores nothing.
C29_CacheDecidesRequests ==
    /\ []C29_CallsAndEntries
    /\ [][\A k \in DOMAIN cache :
            (BeginsCallFor(k) /\ now > cache[k].expiresAt) => k \notin DOMAIN cache']_vars
    /\ [][\A i \in DOMAIN searchLog :
            (searchLog[i].state = "fetching" /\ searchLog'[i].state = "threw")
                => cache' = cache]_vars
    /\ [][\A i \in DOMAIN searchLog :
            (searchLog[i].state = "fetching" /\ searchLog'[i].state = "stored")
                => cache'[searchLog[i].key] =
                        [value |-> searchLog'[i].value, expiresAt |-> now + TtlMs]]_vars

\* C29 happens: hints stored by one call are served to the next call for the
\* same key 12 hours later to the millisecond, without a request.
C29_Witness ==
    /\ Len(searchLog) = 2
    /\ searchLog[1].state = "stored"
    /\ searchLog[1].requests = 1
    /\ searchLog[2].state = "hit"
    /\ searchLog[2].key = searchLog[1].key
    /\ searchLog[2].readAt = searchLog[1].answeredAt + TtlMs
    /\ searchLog[2].requests = 0

\* The view links given out.
ViewLinks == {t \in StoreInputs.tokens : \E s \in StoreInputs.stores : t \in DOMAIN s.capView}

\* The step is the access check of request i.
AccessCheckOf(i) == srv[i].pc = "access" /\ srv'[i] # srv[i]

\* C22: a PUT, DELETE or Discover made with a view link is rejected with
\* 'Read-only link' (403) at the access check, is never admitted to the
\* pipeline that calls upstream, and no step that changes the store belongs
\* to a request made with a view link; a token that resolves to no trip is
\* rejected with 'Trip not found' (404).
C22_ViewLinkNeverWrites ==
    /\ [](\A i \in DOMAIN srv :
            (srv[i].token \in ViewLinks /\ srv[i].method # "GET") =>
                \/ srv[i].pc = "access"
                \/ /\ srv[i].pc = "done"
                   /\ ~srv[i].admitted
                   /\ \/ srv[i].status = 403 /\ srv[i].error = "Read-only link"
                      \/ srv[i].status = 404 /\ srv[i].error = "Trip not found")
    /\ [][\A i \in DOMAIN srv :
            (/\ AccessCheckOf(i)
             /\ srv[i].method \in {"PUT", "DELETE", "DISCOVER"}
             /\ getTripAccessByToken(kv, srv[i].token).role = "view")
                => /\ srv'[i] = Respond(srv[i], 403, "Read-only link")
                   /\ kv' = kv]_vars
    /\ [][\A i \in DOMAIN srv :
            (AccessCheckOf(i) /\ getTripAccessByToken(kv, srv[i].token) = NoAccess)
                => /\ srv'[i] = Respond(srv[i], 404, "Trip not found")
                   /\ kv' = kv]_vars
    /\ [][kv' # kv =>
            \E i \in DOMAIN srv : srv'[i] # srv[i] /\ srv[i].token \notin ViewLinks]_vars

\* C22 happens: a PUT made with the view link of trip 1 was answered 403,
\* a request with an unknown token 404, and the store is as it was.
C22_Witness ==
    /\ \E i \in DOMAIN srv :
        /\ srv[i].method = "PUT"
        /\ srv[i].token = 3
        /\ srv[i].status = 403
    /\ \E j \in DOMAIN srv :
        /\ srv[j].token = UnknownToken
        /\ srv[j].status = 404
    /\ kv = TwoTrips

\* The values a response carries: the tokens and the ids of the trip.
ReturnedValues(r) ==
    {r.trip.id, r.tokens.viewToken, r.tokens.editToken}
        \cup {r.trip.days[k].id : k \in DOMAIN r.trip.days}

\* C25: no value in a response to a request made with a view link is a
\* token that getTripAccessByToken resolves to role 'edit' for that trip.
C25_ViewHolderNeverGetsEdit ==
    \A i \in DOMAIN srv :
        (srv[i].pc = "done" /\ srv[i].status = 200 /\ srv[i].accessRole = "view") =>
            \A v \in ReturnedValues(srv[i]) :
                LET access == getTripAccessByToken(kv, v)
                IN  ~(access.role = "edit" /\ access.trip.id = srv[i].trip.id)

\* Every token a caller may present.
AllTokens == 1..8 \cup {UnknownToken}

\* C27: once a DELETE has answered success, no token resolves to the trip
\* it deleted: not its edit link, its view link or its id.
C27_DeletedTripUnreachable ==
    \A i \in DOMAIN srv :
        (srv[i].method = "DELETE" /\ srv[i].pc = "done" /\ srv[i].status = 200) =>
            \A token \in AllTokens :
                getTripAccessByToken(kv, token).trip.id # srv[i].tripId

\* The trip a token is bound to by the links created with the trips.
BoundTrip(token) == getTripAccessByToken(TwoTrips, token).trip.id

\* C30: a PUT writes only the trip record its token is bound to: a body
\* with another id is answered 'Trip ID mismatch' (400) and the store is
\* unchanged; the record under a trip id carries that id; no step of a PUT
\* changes a capability record or the record of another trip.
C30_PutWritesOnlyItsTrip ==
    /\ [](\A id \in DOMAIN kv.trip : kv.trip[id].id = id)
    /\ [][\A i \in DOMAIN srv :
            (/\ AccessCheckOf(i)
             /\ srv[i].method = "PUT"
             /\ getTripAccessByToken(kv, srv[i].token).role = "edit"
             /\ srv[i].body.id # getTripAccessByToken(kv, srv[i].token).trip.id)
                => /\ srv'[i] = Respond(srv[i], 400, "Trip ID mismatch")
                   /\ kv' = kv]_vars
    /\ [][\A i \in DOMAIN srv :
            (srv[i].method = "PUT" /\ srv'[i] # srv[i])
                => /\ kv'.capEdit = kv.capEdit
                   /\ kv'.capView = kv.capView
                   /\ kv'.tripCaps = kv.tripCaps
                   /\ \A id \in (DOMAIN kv.trip \cup DOMAIN kv'.trip) \ {BoundTrip(srv[i].token)} :
                        /\ id \in DOMAIN kv.trip
                        /\ id \in DOMAIN kv'.trip
                        /\ kv'.trip[id] = kv.trip[id]]_vars

\* C30 happens: with the edit link of trip 1, a PUT of a document of trip 5
\* was answered 400 and a PUT of a document of trip 1 was saved.
C30_Witness ==
    /\ \E i \in DOMAIN srv :
        /\ srv[i].method = "PUT"
        /\ srv[i].token = 4
        /\ srv[i].body.id = 5
        /\ srv[i].status = 400
    /\ \E j \in DOMAIN srv :
        /\ srv[j].method = "PUT"
        /\ srv[j].token = 4
        /\ srv[j].status = 200
    /\ kv.trip[1] = Renamed(1)
    /\ kv.trip[5] = TwoTrips.trip[5]

\* The step makes an updateTrip call.
CallMade == Len(upd') = Len(upd) + 1

\* The call the step makes.
TheCall == upd'[Len(upd')]

\* C23: the stored trip always has at least one day, whatever days are
\* added, deleted, reordered and renamed from two pages: no delete-day call
\* is made from a page that shows a single day (handleDeleteDay returns
\* without an update, so nothing changes), and a page never shows a trip
\* without a day.
C23_AtLeastOneDay ==
    /\ [](\A id \in DOMAIN kv.trip : Len(kv.trip[id].days) >= 1)
    /\ [](\A c \in DOMAIN cl :
            /\ cl[c].trip # NoTrip => Len(cl[c].trip.days) >= 1
            /\ (cl[c].trip # NoTrip /\ Len(cl[c].trip.days) = 1) =>
                \A dayId \in DayIds(cl[c].trip) \cup {UnknownId} :
                    handleDeleteDay(cl[c].trip, dayId) = NoCall)
    /\ [][(CallMade /\ TheCall.op = "deleteDay") =>
            /\ Len(TheCall.base.days) > 1
            /\ Len(TheCall.sent.days) = Len(TheCall.base.days) - 1]_vars

\* C23 happens: a day was added and a delete-day call was saved, leaving the
\* stored trip with one day.
C23_Witness ==
    /\ \E k \in DOMAIN upd :
        /\ upd[k].op = "deleteDay"
        /\ srv[upd[k].req].status = 200
        /\ kv.trip[1] = upd[k].sent
    /\ Len(kv.trip[1].days) = 1

\* The stops of the trip whose stops are moved.
StopIds == {11, 12, 13}

\* The places of a stop in a trip: day and position.
PlacesOf(trip, stopId) ==
    {<<i, j>> \in (DOMAIN trip.days) \X (1..Cardinality(StopIds)) :
        /\ j \in DOMAIN trip.days[i].destinations
        /\ trip.days[i].destinations[j].id = stopId}

\* Every stop is on exactly one day, once, and there is no other stop.
EachStopOnce(trip) ==
    /\ \A stopId \in StopIds : Cardinality(PlacesOf(trip, stopId)) = 1
    /\ \A i \in DOMAIN trip.days :
        /\ Len(trip.days[i].destinations) <= Cardinality(StopIds)
        /\ \A j \in DOMAIN trip.days[i].destinations :
            trip.days[i].destinations[j].id \in StopIds

\* The trip documents there are: stored, shown by a page, sent.
Documents ==
    {kv.trip[id] : id \in DOMAIN kv.trip}
        \cup {cl[c].trip : c \in {x \in DOMAIN cl : cl[x].trip # NoTrip}}
        \cup {upd[k].sent : k \in DOMAIN upd}
        \cup {srv[i].body : i \in DOMAIN srv}

\* The stops of a day other than one stop, in their order.
OthersOf(destinations, stopId) ==
    LET Other(d) == d.id # stopId IN SelectSeq(destinations, Other)

\* C24: a move is one transfer: in the document the call sends, the stop
\* is not on the source day and is the last stop of the target day, every
\* other stop has its day and its order, and the document is sent in one
\* PUT; in every document every stop is on exactly one day, once; a move
\* to the same day, or from or to an unknown day, makes no call.
C24_MoveIsOneTransfer ==
    /\ [](\A trip \in Documents : EachStopOnce(trip))
    /\ [](\A c \in DOMAIN cl :
            cl[c].trip # NoTrip =>
                \A fromDayId \in DayIds(cl[c].trip) \cup {UnknownId},
                   toDayId \in DayIds(cl[c].trip) \cup {UnknownId},
                   stopId \in StopIds \cup {UnknownId} :
                    (\/ fromDayId = toDayId
                     \/ fromDayId = UnknownId
                     \/ toDayId = UnknownId)
                        => handleMoveDestination(cl[c].trip, fromDayId, stopId, toDayId)
                                = NoCall)
    /\ [][(CallMade /\ TheCall.op = "move") =>
            LET before == TheCall.base.days
                after == TheCall.sent.days
                fromDayId == TheCall.args[1]
                stopId == TheCall.args[2]
                toDayId == TheCall.args[3]
            IN  /\ Len(after) = Len(before)
                /\ \A i \in DOMAIN before :
                    /\ after[i].id = before[i].id
                    /\ after[i].label = before[i].label
                    /\ OthersOf(after[i].destinations, stopId)
                            = OthersOf(before[i].destinations, stopId)
                    /\ before[i].id = fromDayId =>
                            \A j \in DOMAIN after[i].destinations :
                                after[i].destinations[j].id # stopId
                    /\ before[i].id = toDayId =>
                            /\ Len(after[i].destinations) = Len(before[i].destinations) + 1
                            /\ after[i].destinations[Len(after[i].destinations)].id = stopId
                /\ Len(srv') = Len(srv) + 1
                /\ srv'[Len(srv')].method = "PUT"
                /\ srv'[Len(srv')].body = TheCall.sent
                /\ cl'[TheCall.client].trip = TheCall.sent]_vars

\* C24 happens: two moves were saved and stop 11 is now the last stop of
\* the second day, after stop 13.
C24_Witness ==
    /\ Len(upd) = 2
    /\ \A k \in DOMAIN upd : upd[k].op = "move" /\ srv[upd[k].req].status = 200
    /\ kv.trip[1].days[1].destinations = <<[id |-> 12]>>
    /\ kv.trip[1].days[2].destinations = <<[id |-> 13], [id |-> 11]>>
    /\ kv.trip[1] # TripWithStops

\* C26: once every updateTrip call of the page has settled, the trip the
\* page shows is the trip the store holds.
C26_LocalEqualsStored ==
    (upd # <<>> /\ \A k \in DOMAIN upd : upd[k].settled) =>
        \A c \in DOMAIN cl : cl[c].trip = getTrip(kv, cl[c].trip.id)

====
